---- MODULE Spec2Model ----
(***************************************************************************)
(* DFR-MoistureTracker: the boot-to-sleep orchestrator (main.c) with the   *)
(* collaborators it polls: the Wi-Fi manager, the MQTT publisher, the      *)
(* provisioning HTTP handler and the credential store in NVS.              *)
(*                                                                         *)
(* One process lifetime runs app_main from "init" to deep sleep or to a    *)
(* restart; Boot starts the next process with the in-memory state reset    *)
(* and the NVS namespace kept.  The event handlers and the HTTP handler    *)
(* run in their own tasks and interleave with app_main between its steps.  *)
(*                                                                         *)
(* Spec and FairSpec follow the firmware as app_main runs it.  ResetSpec   *)
(* follows the reset button detector (factory_reset.c) under a periodic    *)
(* caller, AdcSpec the shared ADC manager with two callers and the sensor  *)
(* pipelines' init and deinit, CaliSpec the calibration registry and      *)
(* PipelineSpec both together.  ReadSpec follows the read functions of the *)
(* sensor pipelines sample by sample, TransformSpec the moisture transform *)
(* over every voltage of the calibration curve.                            *)
(***************************************************************************)
EXTENDS Naturals, Integers, FiniteSets, Sequences, TLC

VARIABLES
    nvs,                    \* NVS namespace "wifi_config" (survives a boot)
    pc,                     \* position of app_main
    failure,                \* error branch app_main has taken in this boot
    endCause,               \* how the process ended
    prevEnd,                \* how the previous process ended
    provRead,               \* result of wifi_credentials_is_provisioned
    mqttReady,              \* result of the check at main.c:401
    clearResult,            \* outcome of wifi_credentials_clear in setup_wifi
    elapsed,                \* wifi_manager_wait_connected: elapsed
    wait_count,             \* publish_telemetry_once: wait_count
    provPolls,              \* handle_provisioning: delays taken in the poll
    sleepArg,               \* argument of enter_deep_sleep
    wakeTimerSec,           \* esp_sleep_enable_timer_wakeup, in seconds
    settledMs,              \* delay taken after a successful publish
    batteryReads,           \* calls of battery_monitor_read_voltage
    moistureReads,          \* calls of soil_moisture_read_percentage
    published,              \* messages accepted by esp_mqtt_client_publish
    wifi_connected,         \* wifi_manager.c:11
    mqtt_connected,         \* mqtt_publisher.c:8
    provisioning_complete,  \* wifi_provisioning.c:13
    client,                 \* mqtt_publisher.c:7, TRUE when non-NULL
    server,                 \* wifi_provisioning.c:12, TRUE when non-NULL
    wifiStarted,            \* esp_wifi_start done in station mode
    mqttStarted,            \* esp_mqtt_client_start done
    mqttHandlerPc,          \* position of mqtt_event_handler
    httpPc,                 \* position of save_post_handler
    httpReq,                \* the POST /save request the server has accepted
    httpResp,               \* the response to the last POST /save
    adc_initialized,        \* adc_manager.c:41
    battery_initialized,    \* battery_monitor.c:16
    soil_initialized,       \* soil_moisture.c:63
    device_id_buffer,       \* main.c:56
    mqtt_topic_buffer,      \* main.c:55
    readings,               \* main.c:409-412, the locals voltage and soil_moisture
    lastPublish,            \* topic and payload given to esp_mqtt_client_publish
    now_ms,                 \* factory_reset.c:34, get_time_ms
    gpio_level,             \* raw level of the reset button, TRUE = pressed
    rawSinceMs,             \* time at which the raw level last changed
    last_change_time,       \* factory_reset.c:42
    last_stable_state,      \* factory_reset.c:43
    button_press_start_ms,  \* factory_reset.c:27
    button_was_pressed,     \* factory_reset.c:28
    reset_triggered,        \* factory_reset.c:29
    resetPc,                \* position of the caller of factory_reset_check
    resetActions,           \* wifi_credentials_clear calls of factory_reset.c:110
    adc_handle,             \* adc_manager.c:40, 0 when NULL
    unitClaimed,            \* driver: ADC1 is claimed by a unit handle
    unitsAcquired,          \* successful calls of adc_oneshot_new_unit
    adcPc,                  \* position of each caller of adc_manager_init
    adcRet,                 \* last return of adc_manager_init, per caller
    cali_handles,           \* adc_manager.c:57
    curvesCreated,          \* curves built by adc_cali_create_scheme_curve_fitting
    lastCali,               \* last call of adc_manager_create_cali and its result
    sensorRet,              \* last return of a sensor pipeline's init
    readFn,                 \* the read function that is running
    readPc,                 \* position of the read function
    sample_i,               \* the loop counter i of the sampling loop
    value_sum,              \* battery_monitor.c:72, soil_moisture.c:171
    valid_samples,          \* battery_monitor.c:73, soil_moisture.c:172
    samplesTaken,           \* what adc_oneshot_read answered in this read
    avg_raw,                \* battery_monitor.c:91, soil_moisture.c:190
    cali_mV,                \* voltage_mV written by adc_cali_raw_to_voltage
    caliCalls,              \* calls of adc_cali_raw_to_voltage in this read
    readErr,                \* the error branch the read took
    readResult              \* the float the read function returned

flags    == <<wifi_connected, mqtt_connected, provisioning_complete>>
handles  == <<client, server, wifiStarted, mqttStarted>>
sensors  == <<adc_initialized, battery_initialized, soil_initialized>>
counters == <<elapsed, wait_count, provPolls>>
reads    == <<batteryReads, moistureReads, published, settledMs>>
sleepv   == <<sleepArg, wakeTimerSec>>
topic    == <<device_id_buffer, mqtt_topic_buffer, readings, lastPublish>>
tasks    == <<mqttHandlerPc, httpPc, httpReq, httpResp>>
history  == <<failure, endCause, prevEnd, provRead, mqttReady, clearResult>>
detector == <<now_ms, gpio_level, rawSinceMs, last_change_time,
              last_stable_state, button_press_start_ms, button_was_pressed,
              reset_triggered, resetPc, resetActions>>
registry == <<cali_handles, curvesCreated, lastCali>>
adcunit  == <<adc_handle, unitClaimed, unitsAcquired, adcPc, adcRet>>
reader   == <<readFn, readPc, sample_i, value_sum, valid_samples,
              samplesTaken, avg_raw, cali_mV, caliCalls, readErr, readResult>>
adc      == <<adcunit, registry, sensorRet, reader>>
unit     == <<detector, adc>>
orchestrator == <<pc, history, counters, reads, sleepv, flags, handles,
                  tasks, topic>>

vars == <<nvs, pc, history, counters, reads, sleepv, flags, handles, tasks,
          sensors, topic, unit>>

(***************************************************************************)
(* Build-time configuration                                                *)
(***************************************************************************)
WIFI_TIMEOUT_SEC == 30
MQTT_WAIT_MS == 3000
MQTT_POLL_MS == 100
PUBLISH_WAIT_MS == 2000
DEEP_SLEEP_INTERVAL_SEC == 3600
DEFAULT_DEVICE_ID == "sensor02"
MQTT_TOPIC_PREFIX == "prefix/"

\* publish_telemetry_once: int max_wait = MQTT_WAIT_MS / 100
max_wait == MQTT_WAIT_MS \div MQTT_POLL_MS

(***************************************************************************)
(* Bounds of the model                                                     *)
(***************************************************************************)
\* The provisioning poll has no bound in the code; its counter saturates here.
MaxProvPolls == 3

(***************************************************************************)
(* The credential store                                                    *)
(***************************************************************************)
Absent == "<absent>"

SsidValues == {"", "net"}
PasswordValues == {"", "pw"}
DeviceIdValues == {"dev1"}

\* provisioned = 0 stands for a missing key: nothing ever writes a 0
NvsEmpty == [provisioned |-> 0, ssid |-> Absent, password |-> Absent,
             device_id |-> Absent]

\* nvs_open fails, or the flag is missing or not 1: not provisioned
wifi_credentials_is_provisioned(store, openOk) ==
    openOk /\ store.provisioned = 1

\* both strings must be readable
wifi_credentials_load(store, openOk) ==
    openOk /\ store.ssid # Absent /\ store.password # Absent

wifi_credentials_load_device_id(store, openOk) ==
    openOk /\ store.device_id # Absent

\* Outcomes of wifi_credentials_clear.  A failed commit leaves it open
\* whether the erase reached the flash.
ClearResults == {"ok", "open_fail", "erase_fail", "commit_fail_applied",
                 "commit_fail_lost"}

\* mutant: the strings are erased, the provisioned flag is not
wifi_credentials_clear_keeps_flag(store, r) ==
    IF r \in {"ok", "commit_fail_applied"}
    THEN [store EXCEPT !.ssid = Absent, !.password = Absent]
    ELSE store

wifi_credentials_clear(store, r) ==
    IF r \in {"ok", "commit_fail_applied"} THEN NvsEmpty ELSE store

\* Outcomes of wifi_credentials_save: the first call that fails, or "ok".
\* nvs_set_* write through; every write before the failing call is kept.
SaveResults == {"open_fail", "ssid_fail", "password_fail", "flag_fail",
                "commit_fail", "ok"}

wifi_credentials_save(store, ssid, password, r) ==
    CASE r = "open_fail" -> store
      [] r = "ssid_fail" -> store
      [] r = "password_fail" -> [store EXCEPT !.ssid = ssid]
      [] r = "flag_fail" -> [store EXCEPT !.ssid = ssid, !.password = password]
      [] OTHER -> [store EXCEPT !.ssid = ssid, !.password = password,
                                !.provisioned = 1]

SaveIdResults == {"open_fail", "set_fail", "commit_fail", "ok"}

wifi_credentials_save_device_id(store, device_id, r) ==
    IF r \in {"commit_fail", "ok"} THEN [store EXCEPT !.device_id = device_id]
    ELSE store

(***************************************************************************)
(* Positions of app_main and the phase each belongs to                     *)
(***************************************************************************)
ProvisioningPcs == {"prov_start", "prov_poll", "prov_done"}
ConnectingPcs == {"wifi_init", "wifi_wait", "wifi_result", "wifi_clear"}
PublishingPcs == {"mqtt_setup", "mqtt_wait", "mqtt_check", "read_sensors",
                  "publish", "publish_send", "settle"}
Terminal == {"sleeping", "restarted"}

Phase(p) ==
    CASE p = "init" -> "Init"
      [] p = "prov_check" -> "ProvisionCheck"
      [] p \in ProvisioningPcs -> "Provisioning"
      [] p \in ConnectingPcs -> "Connecting"
      [] p \in PublishingPcs -> "PublishingTelemetry"
      [] p \in {"enter_sleep", "sleeping"} -> "Sleeping"
      [] OTHER -> "Restart"

Terminated == pc \in Terminal

Min(a, b) == IF a < b THEN a ELSE b

(***************************************************************************)
(* app_main: every call site of enter_deep_sleep passes the same interval  *)
(***************************************************************************)
GoSleep ==
    /\ pc' = "enter_sleep"
    /\ sleepArg' = DEEP_SLEEP_INTERVAL_SEC

\* mutant: a boot that failed retries after a minute
enter_deep_sleep_short_retry ==
    /\ pc = "enter_sleep"
    /\ wakeTimerSec' = IF failure # "none" THEN 60 ELSE sleepArg
    /\ pc' = "sleeping"
    /\ endCause' = "sleep"
    /\ UNCHANGED <<nvs, failure, prevEnd, provRead, mqttReady, clearResult,
                   counters, reads, sleepArg, flags, handles, tasks, sensors,
                   topic>>
    /\ UNCHANGED unit

\* variant: the conversion unit is released before the sleep
enter_deep_sleep_releases_adc ==
    /\ pc = "enter_sleep"
    /\ wakeTimerSec' = sleepArg
    /\ pc' = "sleeping"
    /\ endCause' = "sleep"
    /\ adc_handle' = 0 /\ unitClaimed' = FALSE /\ adc_initialized' = FALSE
    /\ UNCHANGED <<nvs, failure, prevEnd, provRead, mqttReady, clearResult,
                   counters, reads, sleepArg, flags, handles, tasks,
                   battery_initialized, soil_initialized, topic>>
    /\ UNCHANGED <<detector, unitsAcquired, adcPc, adcRet, registry,
                   sensorRet, reader>>

enter_deep_sleep ==
    /\ pc = "enter_sleep"
    /\ wakeTimerSec' = sleepArg
    /\ pc' = "sleeping"
    /\ endCause' = "sleep"
    /\ UNCHANGED <<nvs, failure, prevEnd, provRead, mqttReady, clearResult,
                   counters, reads, sleepArg, flags, handles, tasks, sensors,
                   topic>>
    /\ UNCHANGED unit

(***************************************************************************)
(* The shared ADC manager (adc_manager.c): registry of calibration curves  *)
(***************************************************************************)
MAX_CALI_HANDLES == 4
BAT_ADC_CHAN == 0
SOIL_ADC_CHAN == 1
\* ADC_ATTEN_DB_12, the attenuation both sensor pipelines use
ADC_ATTEN == 3

\* the callers of adc_manager_init
Threads == {"t1", "t2"}

\* a slot of cali_handles[] after zero initialization
FreeEntry == [channel |-> 0, atten |-> 0, handle |-> 0, in_use |-> FALSE]
NoCali == [i \in 1..MAX_CALI_HANDLES |-> FreeEntry]
NoCall == [channel |-> 0, atten |-> 0, err |-> "none", handle |-> 0]

adc_manager_get_handle == adc_handle

\* first in-use slot with this channel and attenuation; 0 stands for NULL
adc_manager_get_cali_handle(reg, channel, atten) ==
    LET hits == {i \in 1..MAX_CALI_HANDLES :
                    /\ reg[i].in_use
                    /\ reg[i].channel = channel
                    /\ reg[i].atten = atten}
    IN IF hits = {} THEN 0
       ELSE reg[CHOOSE i \in hits : \A j \in hits : i <= j].handle

\* variant of free_slot that hands out the first slot when none is free
free_slot_evicts(reg) ==
    LET free == {i \in 1..MAX_CALI_HANDLES : ~reg[i].in_use}
    IN IF free = {} THEN 1
       ELSE CHOOSE i \in free : \A j \in free : i <= j

\* the loop of adc_manager.c:179-185; 0 stands for free_slot == -1
free_slot(reg) ==
    LET free == {i \in 1..MAX_CALI_HANDLES : ~reg[i].in_use}
    IN IF free = {} THEN 0
       ELSE CHOOSE i \in free : \A j \in free : i <= j

\* variant of adc_manager_create_cali that skips the lookup of an existing
\* curve
adc_manager_create_cali_no_lookup(reg, created, channel, atten, schemeOk) ==
    IF free_slot(reg) = 0
    THEN [reg |-> reg, created |-> created, err |-> "ESP_ERR_NO_MEM",
          handle |-> 0]
    ELSE IF ~schemeOk
    THEN [reg |-> reg, created |-> created, err |-> "ESP_FAIL", handle |-> 0]
    ELSE [reg |-> [reg EXCEPT ![free_slot(reg)] =
                      [channel |-> channel, atten |-> atten,
                       handle |-> created + 1, in_use |-> TRUE]],
          created |-> created + 1, err |-> "ESP_OK", handle |-> created + 1]

\* variant of adc_manager_create_cali that takes the slot before the curve
\* is built and keeps it when the construction fails
adc_manager_create_cali_takes_slot(reg, created, channel, atten, schemeOk) ==
    LET existing == adc_manager_get_cali_handle(reg, channel, atten) IN
    IF existing # 0
    THEN [reg |-> reg, created |-> created, err |-> "ESP_OK",
          handle |-> existing]
    ELSE IF free_slot(reg) = 0
    THEN [reg |-> reg, created |-> created, err |-> "ESP_ERR_NO_MEM",
          handle |-> 0]
    ELSE IF ~schemeOk
    THEN [reg |-> [reg EXCEPT ![free_slot(reg)] =
                      [channel |-> channel, atten |-> atten,
                       handle |-> 0, in_use |-> TRUE]],
          created |-> created, err |-> "ESP_FAIL", handle |-> 0]
    ELSE [reg |-> [reg EXCEPT ![free_slot(reg)] =
                      [channel |-> channel, atten |-> atten,
                       handle |-> created + 1, in_use |-> TRUE]],
          created |-> created + 1, err |-> "ESP_OK", handle |-> created + 1]

\* reg is cali_handles[], created the number of curves built so far (a new
\* curve gets the next handle), schemeOk the outcome of
\* adc_cali_create_scheme_curve_fitting.  Every caller passes a non-NULL
\* cali_handle.  The result holds the registry, the counter, the return
\* code and the handle written to *cali_handle.
adc_manager_create_cali(reg, created, channel, atten, schemeOk) ==
    LET existing == adc_manager_get_cali_handle(reg, channel, atten) IN
    IF existing # 0
    THEN [reg |-> reg, created |-> created, err |-> "ESP_OK",
          handle |-> existing]
    ELSE IF free_slot(reg) = 0
    THEN [reg |-> reg, created |-> created, err |-> "ESP_ERR_NO_MEM",
          handle |-> 0]
    ELSE IF ~schemeOk
    THEN [reg |-> reg, created |-> created, err |-> "ESP_FAIL", handle |-> 0]
    ELSE [reg |-> [reg EXCEPT ![free_slot(reg)] =
                      [channel |-> channel, atten |-> atten,
                       handle |-> created + 1, in_use |-> TRUE]],
          created |-> created + 1, err |-> "ESP_OK", handle |-> created + 1]

(***************************************************************************)
(* init_system                                                             *)
(***************************************************************************)
InitInputs ==
    [nvs : {"ok", "no_free_pages", "err"}, erase : BOOLEAN, ndebug : BOOLEAN,
     nvs2 : BOOLEAN, netif : BOOLEAN, evloop : BOOLEAN, adc : BOOLEAN,
     gpio : BOOLEAN, bat : BOOLEAN, soil : BOOLEAN]

\* nvs_flash_init with the erase-and-retry of main.c:104-108; a successful
\* nvs_flash_erase wipes the partition and with it the namespace of the
\* credential store.
\* ESP_ERROR_CHECK aborts on a failed erase unless the build has NDEBUG.
NvsInitResult(in) ==
    CASE in.nvs = "ok" -> "ok"
      [] in.nvs = "err" -> "fail"
      [] OTHER -> IF ~in.erase /\ ~in.ndebug THEN "abort"
                  ELSE IF in.nvs2 THEN "ok" ELSE "fail"

\* the first step of init_system that fails hard, "abort", or "none"
InitFailStage(in) ==
    CASE NvsInitResult(in) = "abort" -> "abort"
      [] NvsInitResult(in) = "fail" -> "nvs"
      [] ~in.netif -> "netif"
      [] ~in.evloop -> "evloop"
      [] ~in.adc -> "adc"
      [] ~in.gpio -> "gpio"
      [] OTHER -> "none"

init_system ==
    /\ pc = "init"
    /\ \E in \in InitInputs :
         LET stage == InitFailStage(in) IN
         /\ adc_initialized' = (stage \in {"gpio", "none"})
         /\ adc_handle' = IF stage \in {"gpio", "none"} THEN 1 ELSE 0
         /\ unitClaimed' = (stage \in {"gpio", "none"})
         /\ unitsAcquired' = IF stage \in {"gpio", "none"} THEN 1 ELSE 0
         /\ battery_initialized' = (stage = "none" /\ in.bat)
         /\ soil_initialized' = (stage = "none" /\ in.soil)
         /\ LET none == [reg |-> cali_handles, created |-> curvesCreated]
                c1 == IF stage = "none" /\ in.bat
                      THEN adc_manager_create_cali(none.reg, none.created,
                               BAT_ADC_CHAN, ADC_ATTEN, TRUE)
                      ELSE none
                c2 == IF stage = "none" /\ in.soil
                      THEN adc_manager_create_cali(c1.reg, c1.created,
                               SOIL_ADC_CHAN, ADC_ATTEN, TRUE)
                      ELSE c1
            IN /\ cali_handles' = c2.reg
               /\ curvesCreated' = c2.created
         /\ CASE stage = "abort" ->
                   /\ pc' = "restarted"
                   /\ endCause' = "abort"
                   /\ UNCHANGED <<failure, sleepArg>>
              [] stage = "none" ->
                   /\ pc' = "prov_check"
                   /\ UNCHANGED <<failure, endCause, sleepArg>>
              [] OTHER ->
                   /\ GoSleep
                   /\ failure' = "init"
                   /\ UNCHANGED endCause
         /\ nvs' = IF in.nvs = "no_free_pages" /\ in.erase
                   THEN NvsEmpty ELSE nvs
    /\ UNCHANGED <<prevEnd, provRead, mqttReady, clearResult, counters,
                   reads, wakeTimerSec, flags, handles, tasks, topic>>
    /\ UNCHANGED <<detector, adcPc, adcRet, lastCali, sensorRet, reader>>

(***************************************************************************)
(* setup_wifi: provisioning check                                          *)
(***************************************************************************)
\* variant: an unprovisioned boot wipes what the store still holds
setup_wifi_check_wipes ==
    /\ pc = "prov_check"
    /\ \E openOk \in BOOLEAN :
         IF wifi_credentials_is_provisioned(nvs, openOk)
         THEN provRead' = "yes" /\ pc' = "wifi_init" /\ UNCHANGED nvs
         ELSE provRead' = "no" /\ pc' = "prov_start" /\ nvs' = NvsEmpty
    /\ UNCHANGED <<failure, endCause, prevEnd, mqttReady, clearResult,
                   counters, reads, sleepv, flags, handles, tasks, sensors,
                   topic>>
    /\ UNCHANGED unit

setup_wifi_check ==
    /\ pc = "prov_check"
    /\ \E openOk \in BOOLEAN :
         IF wifi_credentials_is_provisioned(nvs, openOk)
         THEN provRead' = "yes" /\ pc' = "wifi_init"
         ELSE provRead' = "no" /\ pc' = "prov_start"
    /\ UNCHANGED <<nvs, failure, endCause, prevEnd, mqttReady, clearResult,
                   counters, reads, sleepv, flags, handles, tasks, sensors,
                   topic>>
    /\ UNCHANGED unit

(***************************************************************************)
(* handle_provisioning                                                     *)
(***************************************************************************)
\* mutant: a failed start is tried again instead of returning
handle_provisioning_start_retry ==
    /\ pc = "prov_start"
    /\ \E ok \in BOOLEAN :
         IF ok
         THEN /\ server' = TRUE
              /\ pc' = "prov_poll"
              /\ UNCHANGED failure
         ELSE /\ failure' = "prov_start"
              /\ UNCHANGED <<pc, server>>
    /\ UNCHANGED <<nvs, endCause, prevEnd, provRead, mqttReady, clearResult,
                   counters, reads, sleepv, flags, client, wifiStarted,
                   mqttStarted, tasks, sensors, topic>>
    /\ UNCHANGED unit

\* wifi_provisioning_start: the HTTP server runs only if every step succeeds
handle_provisioning_start ==
    /\ pc = "prov_start"
    /\ \E ok \in BOOLEAN :
         IF ok
         THEN /\ server' = TRUE
              /\ pc' = "prov_poll"
              /\ UNCHANGED <<failure, sleepArg>>
         ELSE /\ failure' = "prov_start"
              /\ GoSleep
              /\ UNCHANGED server
    /\ UNCHANGED <<nvs, endCause, prevEnd, provRead, mqttReady, clearResult,
                   counters, reads, wakeTimerSec, flags, client, wifiStarted,
                   mqttStarted, tasks, sensors, topic>>
    /\ UNCHANGED unit

\* while (!wifi_provisioning_is_complete()) vTaskDelay(1000): no timeout
handle_provisioning_poll ==
    /\ pc = "prov_poll"
    /\ IF provisioning_complete
       THEN pc' = "prov_done" /\ UNCHANGED provPolls
       ELSE provPolls' = Min(provPolls + 1, MaxProvPolls) /\ UNCHANGED pc
    /\ UNCHANGED <<nvs, history, elapsed, wait_count, reads, sleepv, flags,
                   handles, tasks, sensors, topic>>
    /\ UNCHANGED unit

\* mutant: after the submission the boot goes on to connect
handle_provisioning_continue ==
    /\ pc = "prov_done"
    /\ pc' = "wifi_init"
    /\ UNCHANGED <<nvs, history, counters, reads, sleepv, flags, handles,
                   tasks, sensors, topic>>
    /\ UNCHANGED unit

handle_provisioning_restart ==
    /\ pc = "prov_done"
    /\ pc' = "restarted"
    /\ endCause' = "provisioned"
    /\ UNCHANGED <<nvs, failure, prevEnd, provRead, mqttReady, clearResult,
                   counters, reads, sleepv, flags, handles, tasks, sensors,
                   topic>>
    /\ UNCHANGED unit

(***************************************************************************)
(* setup_wifi: connecting                                                  *)
(***************************************************************************)
\* variant: setup_wifi treats a failed initialization like a failed
\* connect and clears the store before it returns the error
wifi_manager_init_sta_clears ==
    /\ pc = "wifi_init"
    /\ \E espOk \in BOOLEAN, openOk \in BOOLEAN :
         IF espOk /\ wifi_credentials_load(nvs, openOk)
         THEN /\ wifiStarted' = TRUE
              /\ pc' = "wifi_wait"
              /\ UNCHANGED <<nvs, failure, sleepArg>>
         ELSE /\ failure' = "wifi_init"
              /\ nvs' = wifi_credentials_clear(nvs, "ok")
              /\ GoSleep
              /\ UNCHANGED wifiStarted
    /\ UNCHANGED <<endCause, prevEnd, provRead, mqttReady, clearResult,
                   counters, reads, wakeTimerSec, flags, client, server,
                   mqttStarted, tasks, sensors, topic>>
    /\ UNCHANGED unit

\* wifi_manager_init_sta: esp_wifi_start is the last step, so the station
\* runs (and events arrive) only when every earlier step succeeded
wifi_manager_init_sta ==
    /\ pc = "wifi_init"
    /\ \E espOk \in BOOLEAN, openOk \in BOOLEAN :
         IF espOk /\ wifi_credentials_load(nvs, openOk)
         THEN /\ wifiStarted' = TRUE
              /\ pc' = "wifi_wait"
              /\ UNCHANGED <<failure, sleepArg>>
         ELSE /\ failure' = "wifi_init"
              /\ GoSleep
              /\ UNCHANGED wifiStarted
    /\ UNCHANGED <<nvs, endCause, prevEnd, provRead, mqttReady, clearResult,
                   counters, reads, wakeTimerSec, flags, client, server,
                   mqttStarted, tasks, sensors, topic>>
    /\ UNCHANGED unit

\* mutant: the loop tests elapsed <= timeout_sec
wifi_manager_wait_connected_poll_inclusive ==
    /\ pc = "wifi_wait"
    /\ IF ~wifi_connected /\ elapsed <= WIFI_TIMEOUT_SEC
       THEN elapsed' = elapsed + 1 /\ UNCHANGED pc
       ELSE pc' = "wifi_result" /\ UNCHANGED elapsed
    /\ UNCHANGED <<nvs, history, wait_count, provPolls, reads, sleepv, flags,
                   handles, tasks, sensors, topic>>
    /\ UNCHANGED unit

\* while (!wifi_connected && elapsed < timeout_sec) { delay; elapsed++; }
wifi_manager_wait_connected_poll ==
    /\ pc = "wifi_wait"
    /\ IF ~wifi_connected /\ elapsed < WIFI_TIMEOUT_SEC
       THEN elapsed' = elapsed + 1 /\ UNCHANGED pc
       ELSE pc' = "wifi_result" /\ UNCHANGED elapsed
    /\ UNCHANGED <<nvs, history, wait_count, provPolls, reads, sleepv, flags,
                   handles, tasks, sensors, topic>>
    /\ UNCHANGED unit

\* the flag is read again after the loop; setup_wifi branches on that read.
\* elapsed is a local: it is gone when the function returns.
wifi_manager_wait_connected_result ==
    /\ pc = "wifi_result"
    /\ IF wifi_connected
       THEN pc' = "mqtt_setup" /\ UNCHANGED failure
       ELSE pc' = "wifi_clear" /\ failure' = "wifi_timeout"
    /\ elapsed' = 0
    /\ UNCHANGED <<nvs, endCause, prevEnd, provRead, mqttReady, clearResult,
                   wait_count, provPolls, reads, sleepv, flags, handles, tasks,
                   sensors, topic>>
    /\ UNCHANGED unit

\* wifi_credentials_clear(); vTaskDelay; esp_restart(): the result of the
\* clear is not looked at
setup_wifi_timeout ==
    /\ pc = "wifi_clear"
    /\ \E r \in ClearResults :
         /\ nvs' = wifi_credentials_clear(nvs, r)
         /\ clearResult' = r
    /\ pc' = "restarted"
    /\ endCause' = "wifi_timeout"
    /\ UNCHANGED <<failure, prevEnd, provRead, mqttReady, counters, reads,
                   sleepv, flags, handles, tasks, sensors, topic>>
    /\ UNCHANGED unit

(***************************************************************************)
(* setup_mqtt and mqtt_publisher_init                                      *)
(***************************************************************************)
\* the step of mqtt_publisher_init that fails, or "ok"
MqttInitResults == {"no_client", "register_fail", "start_fail", "ok"}

\* variant: the topic is the deprecated base topic, the prefix alone
snprintf_topic_base_only(prefix, id) == prefix

\* snprintf(mqtt_topic_buffer, sizeof(mqtt_topic_buffer), "%s%s", prefix, id):
\* the concatenation, cut to the 127 characters the buffer holds
snprintf_topic(prefix, id) ==
    LET text == prefix \o id
    IN IF Len(text) < 128 THEN text ELSE SubSeq(text, 1, 127)

\* mutant: a failed transport setup goes back to connecting
setup_mqtt_reconnect ==
    /\ pc = "mqtt_setup"
    /\ \E openOk \in BOOLEAN, r \in MqttInitResults :
         /\ device_id_buffer' =
                IF wifi_credentials_load_device_id(nvs, openOk)
                THEN nvs.device_id ELSE DEFAULT_DEVICE_ID
         /\ mqtt_topic_buffer' =
                snprintf_topic(MQTT_TOPIC_PREFIX, device_id_buffer')
         /\ UNCHANGED <<readings, lastPublish>>
         /\ client' = (r # "no_client")
         /\ mqttStarted' = (r = "ok")
         /\ IF r = "ok"
            THEN pc' = "mqtt_wait" /\ UNCHANGED failure
            ELSE failure' = "mqtt_setup" /\ pc' = "wifi_init"
    /\ UNCHANGED <<nvs, endCause, prevEnd, provRead, mqttReady, clearResult,
                   counters, reads, sleepv, flags, server, wifiStarted,
                   tasks, sensors>>
    /\ UNCHANGED unit

setup_mqtt ==
    /\ pc = "mqtt_setup"
    /\ \E openOk \in BOOLEAN, r \in MqttInitResults :
         /\ device_id_buffer' =
                IF wifi_credentials_load_device_id(nvs, openOk)
                THEN nvs.device_id ELSE DEFAULT_DEVICE_ID
         /\ mqtt_topic_buffer' =
                snprintf_topic(MQTT_TOPIC_PREFIX, device_id_buffer')
         /\ UNCHANGED <<readings, lastPublish>>
         /\ client' = (r # "no_client")
         /\ mqttStarted' = (r = "ok")
         /\ IF r = "ok"
            THEN pc' = "mqtt_wait" /\ UNCHANGED <<failure, sleepArg>>
            ELSE failure' = "mqtt_setup" /\ GoSleep
    /\ UNCHANGED <<nvs, endCause, prevEnd, provRead, mqttReady, clearResult,
                   counters, reads, wakeTimerSec, flags, server, wifiStarted,
                   tasks, sensors>>
    /\ UNCHANGED unit

(***************************************************************************)
(* publish_telemetry_once                                                  *)
(***************************************************************************)
\* mutant: the loop tests wait_count <= max_wait
publish_telemetry_once_poll_inclusive ==
    /\ pc = "mqtt_wait"
    /\ IF ~mqtt_connected /\ wait_count <= max_wait
       THEN wait_count' = wait_count + 1 /\ UNCHANGED pc
       ELSE pc' = "mqtt_check" /\ UNCHANGED wait_count
    /\ UNCHANGED <<nvs, history, elapsed, provPolls, reads, sleepv, flags,
                   handles, tasks, sensors, topic>>
    /\ UNCHANGED unit

\* while (!mqtt_publisher_is_connected() && wait_count < max_wait)
publish_telemetry_once_poll ==
    /\ pc = "mqtt_wait"
    /\ IF ~mqtt_connected /\ wait_count < max_wait
       THEN wait_count' = wait_count + 1 /\ UNCHANGED pc
       ELSE pc' = "mqtt_check" /\ UNCHANGED wait_count
    /\ UNCHANGED <<nvs, history, elapsed, provPolls, reads, sleepv, flags,
                   handles, tasks, sensors, topic>>
    /\ UNCHANGED unit

\* mutant: the timeout is logged and the function goes on to the sensors
publish_telemetry_once_check_ignores ==
    /\ pc = "mqtt_check"
    /\ mqttReady' = IF mqtt_connected THEN "yes" ELSE "no"
    /\ pc' = "read_sensors"
    /\ wait_count' = 0
    /\ UNCHANGED <<nvs, failure, endCause, prevEnd, provRead, clearResult,
                   elapsed, provPolls, reads, sleepv, flags, handles, tasks,
                   sensors, topic>>
    /\ UNCHANGED unit

\* if (!mqtt_publisher_is_connected()) return ESP_FAIL; app_main then sleeps.
\* wait_count is a local that is not read after the loop.
publish_telemetry_once_check ==
    /\ pc = "mqtt_check"
    /\ IF ~mqtt_connected
       THEN /\ mqttReady' = "no"
            /\ failure' = "mqtt_timeout"
            /\ GoSleep
       ELSE /\ mqttReady' = "yes"
            /\ pc' = "read_sensors"
            /\ UNCHANGED <<failure, sleepArg>>
    /\ wait_count' = 0
    /\ UNCHANGED <<nvs, endCause, prevEnd, provRead, clearResult, elapsed,
                   provPolls, reads, wakeTimerSec, flags, handles, tasks,
                   sensors, topic>>
    /\ UNCHANGED unit

\* mutant: the function returns right after the publish
publish_telemetry_once_no_settle ==
    /\ pc = "settle"
    /\ GoSleep
    /\ UNCHANGED <<nvs, history, counters, reads, wakeTimerSec, flags, handles,
                   tasks, sensors, topic>>
    /\ UNCHANGED unit

\* vTaskDelay(pdMS_TO_TICKS(PUBLISH_WAIT_MS)); return ESP_OK; app_main sleeps
publish_telemetry_once_settle ==
    /\ pc = "settle"
    /\ settledMs' = PUBLISH_WAIT_MS
    /\ GoSleep
    /\ UNCHANGED <<nvs, history, counters, batteryReads, moistureReads,
                   published, wakeTimerSec, flags, handles, tasks, sensors,
                   topic>>
    /\ UNCHANGED unit

(***************************************************************************)
(* Event handlers (their own tasks)                                        *)
(***************************************************************************)
WifiEvents == {"STA_DISCONNECTED", "GOT_IP"}

wifi_event_handler ==
    /\ wifiStarted
    /\ ~Terminated
    /\ \E ev \in WifiEvents : wifi_connected' = (ev = "GOT_IP")
    /\ UNCHANGED <<nvs, pc, history, counters, reads, sleepv, mqtt_connected,
                   provisioning_complete, handles, tasks, sensors, topic>>
    /\ UNCHANGED unit

MqttEvents == {"CONNECTED", "DISCONNECTED"}

\* case MQTT_EVENT_CONNECTED has no break: the handler sets the flag and
\* goes on into case MQTT_EVENT_DISCONNECTED.  app_main can run between the
\* two assignments.
mqtt_event_handler ==
    /\ mqttStarted
    /\ ~Terminated
    /\ mqttHandlerPc = "idle"
    /\ \E ev \in MqttEvents :
         IF ev = "CONNECTED"
         THEN mqtt_connected' = TRUE /\ mqttHandlerPc' = "fallthrough"
         ELSE mqtt_connected' = FALSE /\ UNCHANGED mqttHandlerPc
    /\ UNCHANGED <<nvs, pc, history, counters, reads, sleepv, wifi_connected,
                   provisioning_complete, handles, httpPc, httpReq, httpResp,
                   sensors, topic>>
    /\ UNCHANGED unit

mqtt_event_handler_fallthrough ==
    /\ mqttHandlerPc = "fallthrough"
    /\ ~Terminated
    /\ mqtt_connected' = FALSE
    /\ mqttHandlerPc' = "idle"
    /\ UNCHANGED <<nvs, pc, history, counters, reads, sleepv, wifi_connected,
                   provisioning_complete, handles, httpPc, httpReq, httpResp,
                   sensors, topic>>
    /\ UNCHANGED unit

(***************************************************************************)
(* The provisioning endpoint                                               *)
(***************************************************************************)
\* The text of a request body, cut into pieces: the three keys, the
\* separator and pieces of field text.  A key occurs in a body only as a
\* piece of its own, also where it is the tail of a longer field name.
FormKeys == {"ssid=", "password=", "device_id="}

\* the bodies that are submitted: the form with or without text in ssid
\* and password, no body, a field left out, a longer field name in the
\* place of ssid or device_id, and an ssid of 33 characters
FormBodies ==
    {<<"ssid=">> \o s \o <<"&", "password=">> \o p
        \o <<"&", "device_id=", "dev1">> :
        s \in {<<>>, <<"net">>}, p \in {<<>>, <<"pw">>}}
    \cup {<<>>,
          <<"ssid=", "net", "&", "password=", "pw">>,
          <<"password=", "pw", "&", "device_id=", "dev1">>,
          <<"ssid=", "net", "&", "device_id=", "dev1">>,
          <<"b", "ssid=", "net", "&", "password=", "pw", "&",
            "device_id=", "dev1">>,
          <<"ssid=", "net", "&", "password=", "pw", "&",
            "x", "device_id=", "dev1">>,
          <<"ssid=", "abcdefghijklmnopqrstuvwxyz0123456", "&",
            "password=", "pw", "&", "device_id=", "dev1">>}

\* recv tells whether httpd_req_recv delivers the body
Requests ==
    {[pending |-> TRUE, recv |-> TRUE, body |-> b] : b \in FormBodies}
    \cup {[pending |-> TRUE, recv |-> FALSE,
           body |-> <<"ssid=", "net", "&", "password=", "pw">>]}

NoRequest == [pending |-> FALSE, recv |-> FALSE, body |-> <<>>]

\* strstr(buf, key): the first place of the key in the text, 0 for NULL
strstr(buf, key) ==
    IF \E i \in 1..Len(buf) : buf[i] = key
    THEN CHOOSE i \in 1..Len(buf) :
             buf[i] = key /\ \A j \in 1..(i - 1) : buf[j] # key
    ELSE 0

RECURSIVE Text(_)
Text(pieces) ==
    IF pieces = <<>> THEN "" ELSE Head(pieces) \o Text(Tail(pieces))

\* '+' becomes a blank; %XX is left as it is
url_decode(pieces) ==
    [i \in 1..Len(pieces) |-> IF pieces[i] = "+" THEN " " ELSE pieces[i]]

\* the text after the key up to the next '&' or the end of the body, if it
\* fits into dst_len bytes with its terminator
copy_form_field(buf, start, dst_len) ==
    LET rest == SubSeq(buf, start + 1, Len(buf))
        end == strstr(rest, "&")
        field == IF end = 0 THEN rest ELSE SubSeq(rest, 1, end - 1)
    IN [ok |-> Len(Text(field)) < dst_len, value |-> Text(url_decode(field))]

\* each key is searched in the whole body
parse_form_fields(buf) ==
    LET ssid_start == strstr(buf, "ssid=")
        pass_start == strstr(buf, "password=")
        device_id_start == strstr(buf, "device_id=")
        ssid == copy_form_field(buf, ssid_start, 33)
        password == copy_form_field(buf, pass_start, 65)
        device_id == copy_form_field(buf, device_id_start, 33)
    IN IF ssid_start = 0 \/ pass_start = 0 \/ device_id_start = 0
       THEN [ok |-> FALSE, ssid |-> "", password |-> "", device_id |-> ""]
       ELSE [ok |-> ssid.ok /\ password.ok /\ device_id.ok,
             ssid |-> ssid.value, password |-> password.value,
             device_id |-> device_id.value]

\* the server hands a POST /save to its handler
httpd_uri_save ==
    /\ server
    /\ ~Terminated
    /\ httpPc = "idle"
    /\ ~httpReq.pending
    /\ httpReq' \in Requests
    /\ httpResp' = "none"
    /\ UNCHANGED <<nvs, pc, history, counters, reads, sleepv, flags, handles,
                   mqttHandlerPc, httpPc, sensors, topic>>
    /\ UNCHANGED unit

\* variant of save_post_handler that does not test the result of
\* wifi_credentials_save_device_id
save_post_handler_acks_early ==
    /\ server
    /\ ~Terminated
    /\ httpPc = "idle"
    /\ httpReq.pending
    /\ httpReq' = NoRequest
    /\ \E r \in SaveResults, ri \in SaveIdResults :
         LET form == parse_form_fields(httpReq.body) IN
         IF Len(httpReq.body) = 0 \/ ~httpReq.recv \/ ~form.ok
         THEN /\ r = "ok" /\ ri = "ok"
              /\ httpResp' = "500"
              /\ UNCHANGED <<nvs, provisioning_complete, httpPc>>
         ELSE LET s1 == wifi_credentials_save(nvs, form.ssid, form.password, r)
              IN IF r # "ok"
                 THEN /\ ri = "ok"
                      /\ nvs' = s1
                      /\ httpResp' = "500"
                      /\ UNCHANGED <<provisioning_complete, httpPc>>
                 ELSE /\ nvs' = wifi_credentials_save_device_id(
                                    s1, form.device_id, ri)
                      /\ httpResp' = "200"
                      /\ provisioning_complete' = TRUE
                      /\ httpPc' = "restart_pending"
    /\ UNCHANGED <<pc, history, counters, reads, sleepv, wifi_connected,
                   mqtt_connected, handles, mqttHandlerPc, sensors, topic>>
    /\ UNCHANGED unit

\* POST /save.  Every failure is answered with httpd_resp_send_500; on
\* success the handler sends the page, sets the flag, delays and restarts.
save_post_handler ==
    /\ server
    /\ ~Terminated
    /\ httpPc = "idle"
    /\ httpReq.pending
    /\ httpReq' = NoRequest
    /\ \E r \in SaveResults, ri \in SaveIdResults :
         LET form == parse_form_fields(httpReq.body) IN
         IF Len(httpReq.body) = 0 \/ ~httpReq.recv \/ ~form.ok
         THEN /\ r = "ok" /\ ri = "ok"
              /\ httpResp' = "500"
              /\ UNCHANGED <<nvs, provisioning_complete, httpPc>>
         ELSE LET s1 == wifi_credentials_save(nvs, form.ssid, form.password, r)
              IN IF r # "ok"
                 THEN /\ ri = "ok"
                      /\ nvs' = s1
                      /\ httpResp' = "500"
                      /\ UNCHANGED <<provisioning_complete, httpPc>>
                 ELSE /\ nvs' = wifi_credentials_save_device_id(
                                    s1, form.device_id, ri)
                      /\ IF ri # "ok"
                         THEN /\ httpResp' = "500"
                              /\ UNCHANGED <<provisioning_complete, httpPc>>
                         ELSE /\ httpResp' = "200"
                              /\ provisioning_complete' = TRUE
                              /\ httpPc' = "restart_pending"
    /\ UNCHANGED <<pc, history, counters, reads, sleepv, wifi_connected,
                   mqtt_connected, handles, mqttHandlerPc, sensors, topic>>
    /\ UNCHANGED unit

\* vTaskDelay(pdMS_TO_TICKS(2000)); esp_restart();
save_post_handler_restart ==
    /\ httpPc = "restart_pending"
    /\ ~Terminated
    /\ pc' = "restarted"
    /\ endCause' = "provisioned"
    /\ UNCHANGED <<nvs, failure, prevEnd, provRead, mqttReady, clearResult,
                   counters, reads, sleepv, flags, handles, tasks, sensors,
                   topic>>
    /\ UNCHANGED unit

(***************************************************************************)
(* The shared ADC manager: initialization and the sensor pipelines         *)
(***************************************************************************)
\* variant of adc_manager_init_entry without the early return
adc_manager_init_entry_always(inited) == "new_unit"

\* adc_manager.c:74-77: return ESP_OK at once when already initialized
adc_manager_init_entry(inited) == IF inited THEN "return_ok" ELSE "new_unit"

\* a caller enters adc_manager_init and tests initialized; another caller
\* can run before this one reaches adc_oneshot_new_unit
adc_manager_init_check ==
    /\ \E t \in Threads :
         /\ adcPc[t] = "idle"
         /\ IF adc_manager_init_entry(adc_initialized) = "return_ok"
            THEN /\ adcRet' = [adcRet EXCEPT ![t] = "ESP_OK"]
                 /\ UNCHANGED adcPc
            ELSE /\ adcPc' = [adcPc EXCEPT ![t] = "new_unit"]
                 /\ UNCHANGED adcRet
    /\ UNCHANGED <<nvs, orchestrator, sensors, detector, adc_handle,
                   unitClaimed, unitsAcquired, registry, sensorRet, reader>>

\* adc_oneshot_new_unit and the rest of adc_manager_init.  The driver hands
\* ADC1 to one unit handle at a time: with the unit claimed it returns
\* ESP_ERR_NOT_FOUND and leaves *ret_unit alone, as it does on any other
\* failure.
adc_manager_init_new_unit ==
    /\ \E t \in Threads, fault \in BOOLEAN :
         /\ adcPc[t] = "new_unit"
         /\ adcPc' = [adcPc EXCEPT ![t] = "idle"]
         /\ IF unitClaimed
            THEN /\ adcRet' = [adcRet EXCEPT ![t] = "ESP_ERR_NOT_FOUND"]
                 /\ UNCHANGED <<adc_handle, unitClaimed, unitsAcquired,
                                adc_initialized>>
            ELSE IF fault
            THEN /\ adcRet' = [adcRet EXCEPT ![t] = "ESP_FAIL"]
                 /\ UNCHANGED <<adc_handle, unitClaimed, unitsAcquired,
                                adc_initialized>>
            ELSE /\ adcRet' = [adcRet EXCEPT ![t] = "ESP_OK"]
                 /\ adc_handle' = unitsAcquired + 1
                 /\ unitClaimed' = TRUE
                 /\ unitsAcquired' = unitsAcquired + 1
                 /\ adc_initialized' = TRUE
    /\ UNCHANGED <<nvs, orchestrator, battery_initialized, soil_initialized,
                   detector, registry, sensorRet, reader>>

\* variant of sensor_init that does not test the shared handle
sensor_init_unchecked(inited, reg, created, channel, chanOk, schemeOk) ==
    LET c == adc_manager_create_cali(reg, created, channel, ADC_ATTEN,
                                     schemeOk)
        same == [inited |-> inited, reg |-> reg, created |-> created,
                 called |-> FALSE, cali |-> NoCall]
    IN IF inited THEN same @@ [ret |-> "ESP_OK"]
       ELSE IF ~chanOk THEN same @@ [ret |-> "ESP_FAIL"]
       ELSE [inited |-> c.err = "ESP_OK", reg |-> c.reg,
             created |-> c.created, called |-> TRUE, ret |-> c.err,
             cali |-> [channel |-> channel, atten |-> ADC_ATTEN,
                       err |-> c.err, handle |-> c.handle]]

\* battery_monitor_init and soil_moisture_init, which differ in the channel:
\* inited is the pipeline's initialized flag, chanOk the outcome of
\* adc_oneshot_config_channel.  called tells whether adc_manager_create_cali
\* was reached.
sensor_init(inited, reg, created, channel, chanOk, schemeOk) ==
    LET c == adc_manager_create_cali(reg, created, channel, ADC_ATTEN,
                                     schemeOk)
        same == [inited |-> inited, reg |-> reg, created |-> created,
                 called |-> FALSE, cali |-> NoCall]
    IN IF inited THEN same @@ [ret |-> "ESP_OK"]
       ELSE IF adc_manager_get_handle = 0
       THEN same @@ [ret |-> "ESP_ERR_INVALID_STATE"]
       ELSE IF ~chanOk THEN same @@ [ret |-> "ESP_FAIL"]
       ELSE [inited |-> c.err = "ESP_OK", reg |-> c.reg,
             created |-> c.created, called |-> TRUE, ret |-> c.err,
             cali |-> [channel |-> channel, atten |-> ADC_ATTEN,
                       err |-> c.err, handle |-> c.handle]]

battery_monitor_init ==
    /\ \E chanOk \in BOOLEAN, schemeOk \in BOOLEAN :
         LET r == sensor_init(battery_initialized, cali_handles,
                              curvesCreated, BAT_ADC_CHAN, chanOk, schemeOk)
         IN /\ battery_initialized' = r.inited
            /\ cali_handles' = r.reg
            /\ curvesCreated' = r.created
            /\ lastCali' = IF r.called THEN r.cali ELSE lastCali
            /\ sensorRet' = r.ret
    /\ UNCHANGED <<nvs, orchestrator, adc_initialized, soil_initialized,
                   detector, adcunit, reader>>

soil_moisture_init ==
    /\ \E chanOk \in BOOLEAN, schemeOk \in BOOLEAN :
         LET r == sensor_init(soil_initialized, cali_handles,
                              curvesCreated, SOIL_ADC_CHAN, chanOk, schemeOk)
         IN /\ soil_initialized' = r.inited
            /\ cali_handles' = r.reg
            /\ curvesCreated' = r.created
            /\ lastCali' = IF r.called THEN r.cali ELSE lastCali
            /\ sensorRet' = r.ret
    /\ UNCHANGED <<nvs, orchestrator, adc_initialized, battery_initialized,
                   detector, adcunit, reader>>

\* variant of battery_monitor_deinit that gives the curve back
battery_monitor_deinit_frees ==
    /\ battery_initialized
    /\ battery_initialized' = FALSE
    /\ cali_handles' = [i \in 1..MAX_CALI_HANDLES |->
                          IF cali_handles[i].channel = BAT_ADC_CHAN
                          THEN FreeEntry ELSE cali_handles[i]]
    /\ UNCHANGED <<nvs, orchestrator, adc_initialized, soil_initialized,
                   detector, adcunit, curvesCreated, lastCali, sensorRet,
                   reader>>

\* the registry keeps the curve
battery_monitor_deinit ==
    /\ battery_initialized
    /\ battery_initialized' = FALSE
    /\ UNCHANGED <<nvs, orchestrator, adc_initialized, soil_initialized,
                   unit>>

soil_moisture_deinit ==
    /\ soil_initialized
    /\ soil_initialized' = FALSE
    /\ UNCHANGED <<nvs, orchestrator, adc_initialized, battery_initialized,
                   unit>>

\* the (channel, attenuation) pairs a caller of adc_manager_create_cali
\* passes: one more than the registry holds
CaliPairs == {<<0, 3>>, <<1, 3>>, <<2, 3>>, <<0, 0>>, <<1, 0>>}

\* a call of adc_manager_create_cali by any pipeline
adc_manager_create_cali_call ==
    /\ \E pair \in CaliPairs, schemeOk \in BOOLEAN :
         LET c == adc_manager_create_cali(cali_handles, curvesCreated,
                                          pair[1], pair[2], schemeOk)
         IN /\ cali_handles' = c.reg
            /\ curvesCreated' = c.created
            /\ lastCali' = [channel |-> pair[1], atten |-> pair[2],
                            err |-> c.err, handle |-> c.handle]
    /\ UNCHANGED <<nvs, orchestrator, sensors, detector, adcunit, sensorRet,
                   reader>>

(***************************************************************************)
(* Single precision arithmetic of the read functions.  A float that is not *)
(* negative is [m, e] and stands for m * 2^e, with 2^23 <= m < 2^24 or     *)
(* m = 0; every operation rounds to nearest, ties to even.                 *)
(***************************************************************************)
Pow2(n) == 2^n

RECURSIVE BitLength(_)
BitLength(n) == IF n = 0 THEN 0 ELSE 1 + BitLength(n \div 2)

F32Zero == [m |-> 0, e |-> 0]

\* m * 2^e for m < 2^24, brought to the 24 bit significand
RECURSIVE F32Normal(_, _)
F32Normal(m, e) ==
    IF m = 0 THEN F32Zero
    ELSE IF m < Pow2(23) THEN F32Normal(2 * m, e - 1)
    ELSE [m |-> m, e |-> e]

\* (float)n for 0 <= n < 2^24: exact
F32FromInt(n) == F32Normal(n, 0)

\* the float nearest to p * 2^e
F32Round(p, e) ==
    IF p < Pow2(24) THEN F32Normal(p, e)
    ELSE LET s == BitLength(p) - 24
             q == p \div Pow2(s)
             rest == p % Pow2(s)
             half == Pow2(s - 1)
             up == rest > half \/ (rest = half /\ q % 2 = 1)
             q1 == IF up THEN q + 1 ELSE q
         IN IF q1 = Pow2(24) THEN [m |-> Pow2(23), e |-> e + s + 1]
            ELSE [m |-> q1, e |-> e + s]

\* a significand without its trailing zero bits
RECURSIVE F32Odd(_, _)
F32Odd(m, e) ==
    IF m # 0 /\ m % 2 = 0 THEN F32Odd(m \div 2, e + 1)
    ELSE [m |-> m, e |-> e]

\* x * y; the exact product of the operands the firmware multiplies has
\* fewer than 32 bits
F32Mul(x, y) ==
    IF x.m = 0 \/ y.m = 0 THEN F32Zero
    ELSE LET a == F32Odd(x.m, x.e)
             b == F32Odd(y.m, y.e)
         IN F32Round(a.m * b.m, a.e + b.e)

\* binary long division of q + r / d until q has 24 bits
RECURSIVE F32Quotient(_, _, _, _)
F32Quotient(q, r, d, e) ==
    IF q >= Pow2(23) THEN [q |-> q, r |-> r, e |-> e]
    ELSE LET bit == IF 2 * r >= d THEN 1 ELSE 0
         IN F32Quotient(2 * q + bit, 2 * r - bit * d, d, e - 1)

\* x / y for y # 0
F32Div(x, y) ==
    IF x.m = 0 THEN F32Zero
    ELSE LET t == F32Quotient(x.m \div y.m, x.m % y.m, y.m, x.e - y.e)
             up == 2 * t.r > y.m \/ (2 * t.r = y.m /\ t.q % 2 = 1)
             q1 == IF up THEN t.q + 1 ELSE t.q
         IN IF q1 = Pow2(24) THEN [m |-> Pow2(23), e |-> t.e + 1]
            ELSE [m |-> q1, e |-> t.e]

\* x < y
F32Less(x, y) ==
    IF y.m = 0 THEN FALSE
    ELSE IF x.m = 0 THEN TRUE
    ELSE x.e < y.e \/ (x.e = y.e /\ x.m < y.m)

\* (int)x: the fraction is dropped; the values converted here are below 2^23
F32ToInt(x) ==
    IF x.m = 0 \/ x.e <= -24 THEN 0
    ELSE IF x.e >= 0 THEN x.m * Pow2(x.e)
    ELSE x.m \div Pow2(-x.e)

(***************************************************************************)
(* The read functions of the sensor pipelines (battery_monitor.c,          *)
(* soil_moisture.c)                                                        *)
(***************************************************************************)
SAMPLE_COUNT == 10
VOLTAGE_DIVIDER == 2
SENSOR_DRY_MV == 2950
SENSOR_WET_MV == 851

ReadFns == {"battery_monitor_read_voltage", "soil_moisture_read_voltage",
            "soil_moisture_read_percentage"}

\* raw values adc_oneshot_read delivers: the ends of the 12 bit range and
\* one between
RawValues == {0, 7, 4095}

\* voltages adc_cali_raw_to_voltage delivers to a running read
CaliMilliVolts == {0, 851, 1850, 2001, 2950}

\* the largest voltage the curve delivers at ADC_ATTEN_DB_12
MaxMilliVolts == 3300

\* the largest step between two voltages that are compared
MaxSweepStep == 10

NoSamples == [failed |-> 0, ok |-> [v \in RawValues |-> 0]]

ReaderIdle ==
    /\ readFn = "none" /\ readPc = "idle"
    /\ sample_i = 0 /\ value_sum = 0 /\ valid_samples = 0
    /\ samplesTaken = NoSamples
    /\ avg_raw = 0 /\ cali_mV = 0 /\ caliCalls = 0
    /\ readErr = "none" /\ readResult = F32Zero

\* battery_monitor.c:102: (float)voltage_mV * VOLTAGE_DIVIDER / 1000.0f
battery_voltage(voltage_mV) ==
    F32Div(F32Mul(F32FromInt(voltage_mV), F32FromInt(VOLTAGE_DIVIDER)),
           F32FromInt(1000))

\* soil_moisture.c:200: (float)voltage_mV / 1000.0f
soil_voltage(voltage_mV) == F32Div(F32FromInt(voltage_mV), F32FromInt(1000))

\* variant of soil_moisture_percentage that measures from the wet point
soil_moisture_percentage_rising(voltage) ==
    LET voltage_mV == F32ToInt(F32Mul(voltage, F32FromInt(1000)))
    IN IF voltage_mV >= SENSOR_DRY_MV THEN F32Zero
       ELSE IF voltage_mV <= SENSOR_WET_MV THEN F32FromInt(100)
       ELSE F32Div(F32Mul(F32FromInt(100),
                          F32FromInt(voltage_mV - SENSOR_WET_MV)),
                   F32FromInt(SENSOR_DRY_MV - SENSOR_WET_MV))

\* soil_moisture_read_percentage from the float that
\* soil_moisture_read_voltage returned: the millivolts are recovered with
\* (int)(voltage * 1000.0f), then mapped and clamped
soil_moisture_percentage(voltage) ==
    LET voltage_mV == F32ToInt(F32Mul(voltage, F32FromInt(1000)))
        percentage ==
            IF voltage_mV >= SENSOR_DRY_MV THEN F32Zero
            ELSE IF voltage_mV <= SENSOR_WET_MV THEN F32FromInt(100)
            ELSE F32Div(F32Mul(F32FromInt(100),
                               F32FromInt(SENSOR_DRY_MV - voltage_mV)),
                        F32FromInt(SENSOR_DRY_MV - SENSOR_WET_MV))
    IN IF F32Less(percentage, F32Zero) THEN F32Zero
       ELSE IF F32Less(F32FromInt(100), percentage) THEN F32FromInt(100)
       ELSE percentage

\* what the read function fn returns once the curve delivered voltage_mV
ReadValue(fn, voltage_mV) ==
    CASE fn = "battery_monitor_read_voltage" -> battery_voltage(voltage_mV)
      [] fn = "soil_moisture_read_voltage" -> soil_voltage(voltage_mV)
      [] OTHER -> soil_moisture_percentage(soil_voltage(voltage_mV))

\* what fn returns when its voltage read returns 0.0f on an error branch
ReadFailure(fn) ==
    IF fn = "soil_moisture_read_percentage"
    THEN soil_moisture_percentage(F32Zero)
    ELSE F32Zero

\* a read function is called: the tests before the sampling loop.
\* soil_moisture_read_percentage returns 0.0f itself when the pipeline is
\* not initialized and else calls soil_moisture_read_voltage.
sensor_read_begin ==
    /\ readPc = "idle"
    /\ \E fn \in ReadFns :
         /\ readFn' = fn
         /\ sample_i' = 0 /\ value_sum' = 0 /\ valid_samples' = 0
         /\ samplesTaken' = NoSamples
         /\ avg_raw' = 0 /\ cali_mV' = 0 /\ caliCalls' = 0
         /\ IF ~(IF fn = "battery_monitor_read_voltage"
                 THEN battery_initialized ELSE soil_initialized)
            THEN /\ readPc' = "done"
                 /\ readErr' = "not_initialized"
                 /\ readResult' = F32Zero
            ELSE IF adc_manager_get_handle = 0
            THEN /\ readPc' = "done"
                 /\ readErr' = "no_handle"
                 /\ readResult' = ReadFailure(fn)
            ELSE /\ readPc' = "sampling"
                 /\ readErr' = "none"
                 /\ readResult' = F32Zero
    /\ UNCHANGED <<nvs, orchestrator, sensors, detector, adcunit, registry,
                   sensorRet>>

\* variant of sample_add that counts a failed read as a sample of 0
sample_add_counts_failed(sum, valid, ok, raw_value) ==
    [sum |-> IF ok THEN sum + raw_value ELSE sum, valid |-> valid + 1]

\* the body of the sampling loop: a read that failed adds nothing.  The sum
\* of SAMPLE_COUNT 12 bit values is far from the end of uint32_t.
sample_add(sum, valid, ok, raw_value) ==
    IF ok THEN [sum |-> sum + raw_value, valid |-> valid + 1]
    ELSE [sum |-> sum, valid |-> valid]

\* one turn of the sampling loop
adc_oneshot_read ==
    /\ readPc = "sampling"
    /\ sample_i < SAMPLE_COUNT
    /\ \E ok \in BOOLEAN, raw_value \in RawValues :
         LET a == sample_add(value_sum, valid_samples, ok, raw_value)
         IN /\ ok \/ raw_value = 0
            /\ value_sum' = a.sum
            /\ valid_samples' = a.valid
            /\ samplesTaken' =
                 IF ok
                 THEN [samplesTaken EXCEPT !.ok[raw_value] = @ + 1]
                 ELSE [samplesTaken EXCEPT !.failed = @ + 1]
    /\ sample_i' = sample_i + 1
    /\ UNCHANGED <<readFn, readPc, avg_raw, cali_mV, caliCalls, readErr,
                   readResult>>
    /\ UNCHANGED <<nvs, orchestrator, sensors, detector, adcunit, registry,
                   sensorRet>>

\* after the loop: no valid sample, or the mean and the conversion by the
\* calibration curve, which can fail
sensor_read_convert ==
    /\ readPc = "sampling"
    /\ sample_i = SAMPLE_COUNT
    /\ readPc' = "done"
    /\ IF valid_samples = 0
       THEN /\ readErr' = "all_failed"
            /\ readResult' = ReadFailure(readFn)
            /\ UNCHANGED <<avg_raw, cali_mV, caliCalls>>
       ELSE /\ avg_raw' = value_sum \div valid_samples
            /\ caliCalls' = caliCalls + 1
            /\ \E caliOk \in BOOLEAN, voltage_mV \in CaliMilliVolts :
                 IF caliOk
                 THEN /\ cali_mV' = voltage_mV
                      /\ readErr' = "none"
                      /\ readResult' = ReadValue(readFn, voltage_mV)
                 ELSE /\ voltage_mV = 0
                      /\ cali_mV' = 0
                      /\ readErr' = "conversion_failed"
                      /\ readResult' = ReadFailure(readFn)
    /\ UNCHANGED <<readFn, sample_i, value_sum, valid_samples, samplesTaken>>
    /\ UNCHANGED <<nvs, orchestrator, sensors, detector, adcunit, registry,
                   sensorRet>>

\* the caller has the value
sensor_read_return ==
    /\ readPc = "done"
    /\ readPc' = "idle"
    /\ UNCHANGED <<readFn, sample_i, value_sum, valid_samples, samplesTaken,
                   avg_raw, cali_mV, caliCalls, readErr, readResult>>
    /\ UNCHANGED <<nvs, orchestrator, sensors, detector, adcunit, registry,
                   sensorRet>>

\* soil_moisture_read_percentage as one step, for a read whose curve
\* delivers any voltage; the sampling loop is not followed.  Consecutive
\* reads are taken at rising voltages.
soil_moisture_read_percentage ==
    /\ soil_initialized
    /\ adc_manager_get_handle # 0
    /\ \E voltage_mV \in 0..MaxMilliVolts :
         /\ readPc = "done" =>
               /\ voltage_mV > cali_mV
               /\ voltage_mV <= cali_mV + MaxSweepStep
         /\ cali_mV' = voltage_mV
         /\ readResult' = ReadValue("soil_moisture_read_percentage",
                                    voltage_mV)
    /\ readFn' = "soil_moisture_read_percentage"
    /\ readPc' = "done"
    /\ readErr' = "none"
    /\ caliCalls' = 1
    /\ UNCHANGED <<sample_i, value_sum, valid_samples, samplesTaken, avg_raw>>
    /\ UNCHANGED <<nvs, orchestrator, sensors, detector, adcunit, registry,
                   sensorRet>>

(***************************************************************************)
(* The factory reset button (factory_reset.c)                              *)
(***************************************************************************)
LONG_PRESS_DURATION_MS == 5000
DEBOUNCE_TIME_MS == 50

\* the clock values, in ms since boot, at which the button moves or the
\* detector is polled: around the debounce window after boot and after a
\* first press, and around the long press threshold after each of them
SampleTimes == {10, 50, 60, 100, 150, 5040, 5050, 5100, 5150}

\* a namespace holding a full identity
NvsProvisioned ==
    [ssid |-> "net", password |-> "pw", provisioned |-> 1,
     device_id |-> "dev1"]

\* is_button_pressed: the static locals after the call; the function
\* returns the new last_stable_state
is_button_pressed(current_state, now, stable, change) ==
    IF current_state # stable /\ now - change >= DEBOUNCE_TIME_MS
    THEN [stable |-> current_state, change |-> now]
    ELSE [stable |-> stable, change |-> change]

\* the statics of factory_reset.c as one record
ResetStatics ==
    [stable |-> last_stable_state, change |-> last_change_time,
     start |-> button_press_start_ms, was |-> button_was_pressed,
     trig |-> reset_triggered, fire |-> FALSE]

\* variant of factory_reset_body without the reset_triggered latch
factory_reset_body_no_latch(st, level, now) ==
    LET d == is_button_pressed(level, now, st.stable, st.change)
        s1 == [st EXCEPT !.stable = d.stable, !.change = d.change]
    IN CASE d.stable /\ ~st.was -> [s1 EXCEPT !.start = now, !.was = TRUE]
         [] d.stable /\ st.was ->
               IF now - st.start >= LONG_PRESS_DURATION_MS
               THEN [s1 EXCEPT !.trig = TRUE, !.fire = TRUE]
               ELSE s1
         [] ~d.stable /\ st.was -> [s1 EXCEPT !.was = FALSE]
         [] OTHER -> s1

\* variant of factory_reset_body whose release branch keeps
\* button_was_pressed
factory_reset_body_keeps_press(st, level, now) ==
    IF st.trig THEN st
    ELSE
    LET d == is_button_pressed(level, now, st.stable, st.change)
        s1 == [st EXCEPT !.stable = d.stable, !.change = d.change]
    IN CASE d.stable /\ ~st.was -> [s1 EXCEPT !.start = now, !.was = TRUE]
         [] d.stable /\ st.was ->
               IF now - st.start >= LONG_PRESS_DURATION_MS
               THEN [s1 EXCEPT !.trig = TRUE, !.fire = TRUE]
               ELSE s1
         [] OTHER -> s1

\* factory_reset_check on the statics st with the raw level and the clock
\* it samples; fire tells whether the destructive action is invoked
factory_reset_body(st, level, now) ==
    IF st.trig THEN st
    ELSE
    LET d == is_button_pressed(level, now, st.stable, st.change)
        s1 == [st EXCEPT !.stable = d.stable, !.change = d.change]
    IN CASE d.stable /\ ~st.was -> [s1 EXCEPT !.start = now, !.was = TRUE]
         [] d.stable /\ st.was ->
               IF now - st.start >= LONG_PRESS_DURATION_MS
               THEN [s1 EXCEPT !.trig = TRUE, !.fire = TRUE]
               ELSE s1
         [] ~d.stable /\ st.was -> [s1 EXCEPT !.was = FALSE]
         [] OTHER -> s1

\* one poll.  A poll while the triggering call waits out its 2000 ms delay
\* before esp_restart comes from another caller and meets the latch.
factory_reset_check ==
    /\ resetPc \in {"idle", "restart_pending"}
    /\ LET st == factory_reset_body(ResetStatics, gpio_level, now_ms) IN
       /\ last_stable_state' = st.stable
       /\ last_change_time' = st.change
       /\ button_press_start_ms' = st.start
       /\ button_was_pressed' = st.was
       /\ reset_triggered' = st.trig
       /\ IF st.fire
          THEN /\ \E r \in ClearResults : nvs' = wifi_credentials_clear(nvs, r)
               /\ resetActions' = resetActions + 1
               /\ resetPc' = "restart_pending"
          ELSE UNCHANGED <<nvs, resetActions, resetPc>>
    /\ UNCHANGED <<now_ms, gpio_level, rawSinceMs, orchestrator, sensors, adc>>

\* esp_restart at the end of the triggering call
factory_reset_restart ==
    /\ resetPc = "restart_pending"
    /\ resetPc' = "restarted"
    /\ UNCHANGED <<nvs, now_ms, gpio_level, rawSinceMs, last_change_time,
                   last_stable_state, button_press_start_ms,
                   button_was_pressed, reset_triggered, resetActions,
                   orchestrator, sensors, adc>>

\* esp_timer advances
TimePasses ==
    /\ resetPc # "restarted"
    /\ \E t \in SampleTimes :
         /\ t > now_ms
         /\ now_ms' = t
    /\ UNCHANGED <<nvs, gpio_level, rawSinceMs, last_change_time,
                   last_stable_state, button_press_start_ms,
                   button_was_pressed, reset_triggered, resetPc,
                   resetActions, orchestrator, sensors, adc>>

\* the button is pressed or released
ButtonChange ==
    /\ resetPc # "restarted"
    /\ gpio_level' = ~gpio_level
    /\ rawSinceMs' = now_ms
    /\ UNCHANGED <<nvs, now_ms, last_change_time, last_stable_state,
                   button_press_start_ms, button_was_pressed,
                   reset_triggered, resetPc, resetActions, orchestrator,
                   sensors, adc>>

(***************************************************************************)
(* publish_telemetry_once: the sensor reads and the publish                *)
(***************************************************************************)
NoReadings == [voltage |-> F32Zero, soil_moisture |-> F32Zero]

NoMessage == [topic |-> "", battery |-> 0, soil_moisture |-> 0, device |-> ""]

\* the returns of the two read functions that publish_telemetry_once calls:
\* the value of their error branches and the conversions of two calibrated
\* voltages (0 mV and 1850 mV)
SensorReturns ==
    [fn \in {"battery_monitor_read_voltage", "soil_moisture_read_percentage"}
        |-> {ReadFailure(fn)} \cup {ReadValue(fn, mV) : mV \in {0, 1850}}]

\* variant: soil_moisture_read_percentage without its own test of
\* initialized, so that the 0.0f of the voltage read is converted
SensorReadings_converts_uninitialized(fn, initialized) ==
    IF ~initialized THEN {ReadFailure(fn)} ELSE SensorReturns[fn]

\* what a read function can return to publish_telemetry_once: 0.0f when
\* its pipeline is not initialized, else the value of an error branch or
\* the conversion of a calibrated voltage
SensorReadings(fn, initialized) ==
    IF ~initialized THEN {F32Zero} ELSE SensorReturns[fn]

\* the number that "%.<digits>f" prints for x, as an integer count of
\* 10^-digits: the exact value rounded to nearest, ties to even
printf_fixed(x, digits) ==
    LET n == x.m * 10^digits
        k == -x.e
    IN IF x.m = 0 THEN 0
       ELSE IF k <= 0 THEN n * Pow2(-k)
       ELSE IF k >= 32 THEN 0
       ELSE IF k = 31 THEN (IF n > Pow2(30) THEN 1 ELSE 0)
       ELSE LET q == n \div Pow2(k)
                r == n % Pow2(k)
            IN IF 2 * r > Pow2(k) \/ (2 * r = Pow2(k) /\ q % 2 = 1)
               THEN q + 1 ELSE q

\* float voltage = battery_monitor_read_voltage();
\* float soil_moisture = soil_moisture_read_percentage();
publish_telemetry_once_read ==
    /\ pc = "read_sensors"
    /\ batteryReads' = batteryReads + 1
    /\ moistureReads' = moistureReads + 1
    /\ \E v \in SensorReadings("battery_monitor_read_voltage",
                                battery_initialized),
          p \in SensorReadings("soil_moisture_read_percentage",
                                soil_initialized) :
         readings' = [voltage |-> v, soil_moisture |-> p]
    /\ pc' = "publish"
    /\ UNCHANGED <<nvs, history, counters, published, settledMs, sleepv, flags,
                   handles, tasks, sensors, device_id_buffer,
                   mqtt_topic_buffer, lastPublish>>
    /\ UNCHANGED unit

\* mqtt_publisher_publish_telemetry up to the call of the transport: the
\* test of client and mqtt_connected; base_topic is set since setup_mqtt,
\* and the payload always fits its 192 characters
mqtt_publisher_publish_telemetry ==
    /\ pc = "publish"
    /\ IF client /\ mqtt_connected
       THEN /\ pc' = "publish_send"
            /\ UNCHANGED <<failure, sleepArg>>
       ELSE /\ failure' = "publish"
            /\ GoSleep
    /\ UNCHANGED <<nvs, endCause, prevEnd, provRead, mqttReady, clearResult,
                   counters, reads, wakeTimerSec, flags, handles, tasks,
                   sensors, topic>>
    /\ UNCHANGED unit

\* esp_mqtt_client_publish(client, base_topic, payload, 0, 1, 0) and the
\* test of its result; the event task can have run since the flag was read
esp_mqtt_client_publish ==
    /\ pc = "publish_send"
    /\ \E sendOk \in BOOLEAN :
         IF sendOk
         THEN /\ published' = published + 1
              /\ lastPublish' =
                    [topic |-> mqtt_topic_buffer,
                     battery |-> printf_fixed(readings.voltage, 2),
                     soil_moisture |->
                         printf_fixed(readings.soil_moisture, 1),
                     device |-> device_id_buffer]
              /\ pc' = "settle"
              /\ UNCHANGED <<failure, sleepArg>>
         ELSE /\ failure' = "publish"
              /\ GoSleep
              /\ UNCHANGED <<published, lastPublish>>
    /\ UNCHANGED <<nvs, endCause, prevEnd, provRead, mqttReady, clearResult,
                   counters, batteryReads, moistureReads, settledMs,
                   wakeTimerSec, flags, handles, tasks, sensors,
                   device_id_buffer, mqtt_topic_buffer, readings>>
    /\ UNCHANGED unit

(***************************************************************************)
(* Process start: static storage is zeroed, the NVS namespace is kept      *)
(***************************************************************************)
Volatile ==
    /\ pc = "init"
    /\ failure = "none"
    /\ endCause = "none"
    /\ provRead = "unread"
    /\ mqttReady = "unchecked"
    /\ clearResult = "none"
    /\ elapsed = 0 /\ wait_count = 0 /\ provPolls = 0
    /\ sleepArg = 0 /\ wakeTimerSec = 0 /\ settledMs = 0
    /\ batteryReads = 0 /\ moistureReads = 0 /\ published = 0
    /\ wifi_connected = FALSE /\ mqtt_connected = FALSE
    /\ provisioning_complete = FALSE
    /\ client = FALSE /\ server = FALSE
    /\ wifiStarted = FALSE /\ mqttStarted = FALSE
    /\ mqttHandlerPc = "idle" /\ httpPc = "idle"
    /\ httpReq = NoRequest /\ httpResp = "none"
    /\ adc_initialized = FALSE /\ battery_initialized = FALSE
    /\ soil_initialized = FALSE
    /\ device_id_buffer = "" /\ mqtt_topic_buffer = ""
    /\ readings = NoReadings /\ lastPublish = NoMessage
    /\ now_ms = 0 /\ rawSinceMs = 0
    /\ last_change_time = 0 /\ last_stable_state = FALSE
    /\ button_press_start_ms = 0 /\ button_was_pressed = FALSE
    /\ reset_triggered = FALSE
    /\ resetPc = "idle" /\ resetActions = 0
    /\ adc_handle = 0 /\ unitClaimed = FALSE /\ unitsAcquired = 0
    /\ adcPc = [t \in Threads |-> "idle"]
    /\ adcRet = [t \in Threads |-> "none"]
    /\ cali_handles = NoCali /\ curvesCreated = 0
    /\ lastCali = NoCall /\ sensorRet = "none"
    /\ ReaderIdle

\* the reset button is held, or not, for the whole of a boot
Init ==
    /\ Volatile
    /\ nvs = NvsEmpty
    /\ prevEnd = "other"
    /\ gpio_level \in BOOLEAN

\* variant: the calibration cache is kept in memory that survives the
\* sleep
Boot_retains_calibration ==
    /\ Terminated
    /\ pc' = "init"
    /\ failure' = "none"
    /\ endCause' = "none"
    /\ provRead' = "unread"
    /\ mqttReady' = "unchecked"
    /\ clearResult' = "none"
    /\ elapsed' = 0 /\ wait_count' = 0 /\ provPolls' = 0
    /\ sleepArg' = 0 /\ wakeTimerSec' = 0 /\ settledMs' = 0
    /\ batteryReads' = 0 /\ moistureReads' = 0 /\ published' = 0
    /\ wifi_connected' = FALSE /\ mqtt_connected' = FALSE
    /\ provisioning_complete' = FALSE
    /\ client' = FALSE /\ server' = FALSE
    /\ wifiStarted' = FALSE /\ mqttStarted' = FALSE
    /\ mqttHandlerPc' = "idle" /\ httpPc' = "idle"
    /\ httpReq' = NoRequest /\ httpResp' = "none"
    /\ adc_initialized' = FALSE /\ battery_initialized' = FALSE
    /\ soil_initialized' = FALSE
    /\ device_id_buffer' = "" /\ mqtt_topic_buffer' = ""
    /\ readings' = NoReadings /\ lastPublish' = NoMessage
    /\ now_ms' = 0 /\ rawSinceMs' = 0
    /\ last_change_time' = 0 /\ last_stable_state' = FALSE
    /\ button_press_start_ms' = 0 /\ button_was_pressed' = FALSE
    /\ reset_triggered' = FALSE
    /\ resetPc' = "idle" /\ resetActions' = 0
    /\ adc_handle' = 0 /\ unitClaimed' = FALSE /\ unitsAcquired' = 0
    /\ adcPc' = [t \in Threads |-> "idle"]
    /\ adcRet' = [t \in Threads |-> "none"]
    /\ lastCali' = NoCall /\ sensorRet' = "none"
    /\ readFn' = "none" /\ readPc' = "idle"
    /\ sample_i' = 0 /\ value_sum' = 0 /\ valid_samples' = 0
    /\ samplesTaken' = NoSamples
    /\ avg_raw' = 0 /\ cali_mV' = 0 /\ caliCalls' = 0
    /\ readErr' = "none" /\ readResult' = F32Zero
    /\ gpio_level' \in BOOLEAN
    /\ prevEnd' = IF endCause = "wifi_timeout" /\ clearResult = "ok"
                  THEN "timeout_cleared" ELSE "other"
    /\ UNCHANGED <<nvs, cali_handles, curvesCreated>>

Boot ==
    /\ Terminated
    /\ pc' = "init"
    /\ failure' = "none"
    /\ endCause' = "none"
    /\ provRead' = "unread"
    /\ mqttReady' = "unchecked"
    /\ clearResult' = "none"
    /\ elapsed' = 0 /\ wait_count' = 0 /\ provPolls' = 0
    /\ sleepArg' = 0 /\ wakeTimerSec' = 0 /\ settledMs' = 0
    /\ batteryReads' = 0 /\ moistureReads' = 0 /\ published' = 0
    /\ wifi_connected' = FALSE /\ mqtt_connected' = FALSE
    /\ provisioning_complete' = FALSE
    /\ client' = FALSE /\ server' = FALSE
    /\ wifiStarted' = FALSE /\ mqttStarted' = FALSE
    /\ mqttHandlerPc' = "idle" /\ httpPc' = "idle"
    /\ httpReq' = NoRequest /\ httpResp' = "none"
    /\ adc_initialized' = FALSE /\ battery_initialized' = FALSE
    /\ soil_initialized' = FALSE
    /\ device_id_buffer' = "" /\ mqtt_topic_buffer' = ""
    /\ readings' = NoReadings /\ lastPublish' = NoMessage
    /\ now_ms' = 0 /\ rawSinceMs' = 0
    /\ last_change_time' = 0 /\ last_stable_state' = FALSE
    /\ button_press_start_ms' = 0 /\ button_was_pressed' = FALSE
    /\ reset_triggered' = FALSE
    /\ resetPc' = "idle" /\ resetActions' = 0
    /\ adc_handle' = 0 /\ unitClaimed' = FALSE /\ unitsAcquired' = 0
    /\ adcPc' = [t \in Threads |-> "idle"]
    /\ adcRet' = [t \in Threads |-> "none"]
    /\ cali_handles' = NoCali /\ curvesCreated' = 0
    /\ lastCali' = NoCall /\ sensorRet' = "none"
    /\ readFn' = "none" /\ readPc' = "idle"
    /\ sample_i' = 0 /\ value_sum' = 0 /\ valid_samples' = 0
    /\ samplesTaken' = NoSamples
    /\ avg_raw' = 0 /\ cali_mV' = 0 /\ caliCalls' = 0
    /\ readErr' = "none" /\ readResult' = F32Zero
    /\ gpio_level' \in BOOLEAN
    /\ prevEnd' = IF endCause = "wifi_timeout" /\ clearResult = "ok"
                  THEN "timeout_cleared" ELSE "other"
    /\ UNCHANGED nvs

(***************************************************************************)
(* Specifications                                                          *)
(***************************************************************************)
\* the steps of the main task
app_main ==
    \/ init_system
    \/ setup_wifi_check
    \/ handle_provisioning_start
    \/ handle_provisioning_poll
    \/ handle_provisioning_restart
    \/ wifi_manager_init_sta
    \/ wifi_manager_wait_connected_poll
    \/ wifi_manager_wait_connected_result
    \/ setup_wifi_timeout
    \/ setup_mqtt
    \/ publish_telemetry_once_poll
    \/ publish_telemetry_once_check
    \/ publish_telemetry_once_read
    \/ mqtt_publisher_publish_telemetry
    \/ esp_mqtt_client_publish
    \/ publish_telemetry_once_settle
    \/ enter_deep_sleep

Next ==
    \/ app_main
    \/ wifi_event_handler
    \/ mqtt_event_handler
    \/ mqtt_event_handler_fallthrough
    \/ httpd_uri_save
    \/ save_post_handler
    \/ save_post_handler_restart
    \/ Boot

Spec == Init /\ [][Next]_vars

\* FreeRTOS keeps scheduling the main task and lets a started handler
\* finish; nothing obliges the network, the broker or the operator to act.
FairSpec ==
    /\ Spec
    /\ WF_vars(app_main)
    /\ WF_vars(mqtt_event_handler_fallthrough)
    /\ WF_vars(save_post_handler_restart)

\* the detector polled by a periodic caller, on a provisioned device
ResetInit ==
    /\ Volatile
    /\ nvs = NvsProvisioned
    /\ prevEnd = "other"
    /\ gpio_level \in BOOLEAN

ResetNext ==
    \/ factory_reset_check
    \/ factory_reset_restart
    \/ TimePasses
    \/ ButtonChange

ResetSpec == ResetInit /\ [][ResetNext]_vars

\* the ADC manager and the two sensor pipelines, with two callers of
\* adc_manager_init
AdcInit ==
    /\ Volatile
    /\ nvs = NvsEmpty
    /\ prevEnd = "other"
    /\ gpio_level = FALSE

AdcNext ==
    \/ adc_manager_init_check
    \/ adc_manager_init_new_unit
    \/ battery_monitor_init
    \/ soil_moisture_init
    \/ battery_monitor_deinit
    \/ soil_moisture_deinit

AdcSpec == AdcInit /\ [][AdcNext]_vars

\* the calibration registry under calls for any pair
CaliNext == adc_manager_create_cali_call

CaliSpec == AdcInit /\ [][CaliNext]_vars

\* the read functions, called before or after init_system has run
ReadNext ==
    \/ init_system
    \/ sensor_read_begin
    \/ adc_oneshot_read
    \/ sensor_read_convert
    \/ sensor_read_return

ReadSpec == AdcInit /\ [][ReadNext]_vars

\* the moisture transform over every voltage of the curve
TransformNext ==
    \/ init_system
    \/ soil_moisture_read_percentage

TransformSpec == AdcInit /\ [][TransformNext]_vars

\* the manager, the pipelines' init and deinit, and calls for any pair
PipelineNext == AdcNext \/ CaliNext

PipelineSpec == AdcInit /\ [][PipelineNext]_vars

(***************************************************************************)
(* Properties                                                              *)
(***************************************************************************)
\* the abort of ESP_ERROR_CHECK(nvs_flash_erase()) in init_system
Aborted == endCause = "abort"

\* C1 as stated: whatever the phase and the injected failure, a boot that
\* has ended has ended in Sleeping.  (The abort in Init is left aside here.)
C1_AlwaysReachesSleeping ==
    (Terminated /\ ~Aborted) => pc = "sleeping"

\* C1 amended: in every phase and under every injected failure the two timed
\* polls stay within the configured timeouts (WIFI_TIMEOUT_SEC one-second
\* polls, MQTT_WAIT_MS / 100 transport polls), and a boot that never started
\* the provisioning endpoint ends in Sleeping or in a restart (connect
\* timeout, or the abort in Init); the provisioning poll has no timeout.
C1_BoundedPollsSleepOrRestart ==
    /\ elapsed <= WIFI_TIMEOUT_SEC
    /\ wait_count <= max_wait
    /\ (pc \in ConnectingPcs \cup PublishingPcs) => provPolls = 0
    /\ (Terminated /\ ~server) =>
          \/ pc = "sleeping" /\ endCause = "sleep"
          \/ pc = "restarted" /\ endCause \in {"wifi_timeout", "abort"}

\* the network poll ran to its bound with the flag still false
C1_Witness ==
    /\ pc = "restarted"
    /\ endCause = "wifi_timeout"
    /\ ~server

\* C2 as stated: every boot ends in deep sleep or in a restart.
C2_EveryPathTerminates == (pc = "init") ~> Terminated

\* C2 amended: every boot ends in deep sleep or in a restart unless it waits
\* in the provisioning poll for the operator's submission, and every error
\* path ends in one of the two.
C2_TerminatesUnlessProvisioning ==
    /\ (pc = "init") ~> (Terminated \/ pc = "prov_poll")
    /\ (failure # "none") ~> Terminated

\* an error path (publish failure) that ended in deep sleep
C2_Witness ==
    /\ pc = "sleeping"
    /\ failure = "publish"
    /\ wakeTimerSec > 0

\* C3 as stated: every poll loop, the provisioning-completion poll
\* included, is left after a bounded number of polls.
C3_EveryPollLoopExits == (pc = "prov_poll") ~> (pc # "prov_poll")

\* C3 amended: the network poll and the transport poll take at most
\* WIFI_TIMEOUT_SEC and MQTT_WAIT_MS / 100 polls; at the bound the next step
\* leaves the loop whatever the flag, and a flag read false after the loop
\* takes the failure path.  The provisioning-completion poll is left only
\* when the flag is true (or the handler's restart ends the process).
C3_TimedPollsBounded ==
    [][/\ elapsed' <= WIFI_TIMEOUT_SEC
       /\ wait_count' <= max_wait
       /\ (pc = "wifi_wait" /\ elapsed = WIFI_TIMEOUT_SEC /\ pc' # pc)
             => pc' = "wifi_result"
       /\ (pc = "mqtt_wait" /\ wait_count = max_wait /\ pc' # pc)
             => pc' = "mqtt_check"
       /\ (pc = "wifi_result" /\ ~wifi_connected /\ pc' # pc)
             => (pc' = "wifi_clear" /\ failure' = "wifi_timeout")
       /\ (pc = "mqtt_check" /\ ~mqtt_connected /\ pc' # pc)
             => (pc' = "enter_sleep" /\ failure' = "mqtt_timeout")
       /\ (pc = "prov_poll" /\ pc' # pc)
             => (provisioning_complete /\ pc' \in {"prov_done", "restarted"})
      ]_vars

\* the transport poll ran to its bound with the flag still false
C3_Witness ==
    /\ pc = "mqtt_check"
    /\ wait_count = max_wait
    /\ ~mqtt_connected

\* C4: a hard failure of a subsystem initialization in Init sends the boot
\* straight to Sleeping with the default interval: no provisioning check, no
\* network, no publish, and no crash or restart.
C4_InitFailureGoesToSleep ==
    (failure = "init" \/ Aborted) =>
        /\ pc \in {"enter_sleep", "sleeping"}
        /\ sleepArg = DEEP_SLEEP_INTERVAL_SEC
        /\ provRead = "unread"
        /\ ~wifiStarted /\ ~server /\ ~mqttStarted
        /\ published = 0

\* the error branches of app_main that end in enter_deep_sleep
SleepingFailures == {"init", "prov_start", "wifi_init", "mqtt_setup",
                     "mqtt_timeout", "publish"}

\* C5 as stated: every failure in any phase leads to Sleeping with the
\* default interval.
C5_EveryFailureSleeps ==
    (failure # "none" /\ Terminated) =>
        (pc = "sleeping" /\ wakeTimerSec = DEEP_SLEEP_INTERVAL_SEC)

\* C5 amended: every entry into Sleeping, after success or after a failure,
\* schedules the wake timer with the default interval; every failure that
\* app_main handles leads to Sleeping except the connect timeout, which
\* leads to the clear and a restart.  A process that ends otherwise ends in
\* a restart with no wake timer (connect timeout, completed provisioning,
\* abort in Init).
C5_SameIntervalOnEverySleep ==
    /\ pc = "enter_sleep" => sleepArg = DEEP_SLEEP_INTERVAL_SEC
    /\ pc = "sleeping" =>
          (wakeTimerSec = DEEP_SLEEP_INTERVAL_SEC /\ endCause = "sleep")
    /\ failure \in SleepingFailures => pc \in {"enter_sleep", "sleeping"}
    /\ failure = "wifi_timeout" => pc \in {"wifi_clear", "restarted"}
    /\ failure \in SleepingFailures \cup {"none", "wifi_timeout"}
    /\ pc = "restarted" =>
          /\ endCause \in {"wifi_timeout", "provisioned", "abort"}
          /\ wakeTimerSec = 0

\* a failed network-client initialization ended in the default sleep
C5_Witness ==
    /\ pc = "sleeping"
    /\ failure = "wifi_init"
    /\ wakeTimerSec = DEEP_SLEEP_INTERVAL_SEC

\* C6 as stated: after the connect timeout the persisted identity is
\* cleared when the device restarts.
C6_TimeoutAlwaysClears ==
    (pc = "restarted" /\ endCause = "wifi_timeout") => nvs = NvsEmpty

\* C6 amended: a connected-flag read false after the connect wait leads to
\* the clear and a restart, never to Sleeping; when the clear succeeds the
\* identity is erased and the next boot reads not-provisioned and never
\* connects; when the store rejects the clear its result is ignored and the
\* device restarts still provisioned.
C6_TimeoutClearsAndRestarts ==
    /\ failure = "wifi_timeout" => pc \in {"wifi_clear", "restarted"}
    /\ (pc = "restarted" /\ endCause = "wifi_timeout") =>
          /\ failure = "wifi_timeout"
          /\ clearResult \in ClearResults
          /\ clearResult = "ok" => nvs = NvsEmpty
          /\ clearResult \in {"open_fail", "erase_fail"} => nvs.provisioned = 1
    /\ prevEnd = "timeout_cleared" =>
          /\ provRead # "yes"
          /\ pc \notin ConnectingPcs \cup PublishingPcs
          /\ provRead = "no" =>
                pc \in ProvisioningPcs \cup {"enter_sleep"} \cup Terminal

\* the boot after a cleared connect timeout waits in Provisioning
C6_Witness ==
    /\ prevEnd = "timeout_cleared"
    /\ pc = "prov_poll"

\* C7: a boot that read the provisioned flag as false enters Provisioning
\* and never Connecting or PublishingTelemetry; once a submission has
\* completed, that process ends in a restart.
C7_ProvisioningEndsInRestart ==
    /\ [](provRead = "no" =>
            /\ pc \in ProvisioningPcs \cup {"enter_sleep"} \cup Terminal
            /\ ~wifiStarted /\ ~mqttStarted /\ published = 0
            /\ pc \in {"enter_sleep", "sleeping"} =>
                  (failure = "prov_start" /\ ~provisioning_complete))
    /\ [](provisioning_complete =>
            (provRead = "no" /\ pc \in {"prov_poll", "prov_done", "restarted"}))
    /\ (provisioning_complete ~> (pc = "restarted"))

\* the process restarted after a completed submission
C7_Witness ==
    /\ pc = "restarted"
    /\ provisioning_complete
    /\ provRead = "no"
    /\ endCause = "provisioned"

PhaseRank(ph) ==
    CASE ph = "Init" -> 1
      [] ph = "ProvisionCheck" -> 2
      [] ph \in {"Provisioning", "Connecting"} -> 3
      [] ph = "PublishingTelemetry" -> 4
      [] ph = "Sleeping" -> 5
      [] OTHER -> 6

\* C8: within one process lifetime the phase only moves forward in the
\* order Init, ProvisionCheck, Provisioning or Connecting,
\* PublishingTelemetry, Sleeping: a step that changes the phase moves to a
\* later one, so none is entered twice.
C8_PhasesOnlyForward ==
    [][(pc \notin Terminal /\ Phase(pc') # Phase(pc))
          => PhaseRank(Phase(pc')) > PhaseRank(Phase(pc))]_vars

\* a boot that went through every phase of the connected path
C8_Witness ==
    /\ pc = "sleeping"
    /\ provRead = "yes"
    /\ published = 1

\* C9: when the transport flag is read false after the bounded wait, no
\* sensor is read and nothing is published; the boot goes to Sleeping with
\* the default interval, without restart and with the identity kept.
C9_NotReadySkipsPublish ==
    /\ pc = "mqtt_check" => wait_count <= max_wait
    /\ mqttReady = "no" =>
          /\ pc \in {"enter_sleep", "sleeping"}
          /\ batteryReads = 0 /\ moistureReads = 0
          /\ published = 0 /\ settledMs = 0
          /\ sleepArg = DEEP_SLEEP_INTERVAL_SEC
          /\ nvs.provisioned = 1
          /\ pc = "sleeping" =>
                (wakeTimerSec = DEEP_SLEEP_INTERVAL_SEC /\ endCause = "sleep")

\* the boot sleeps after a transport wait that never saw the flag
C9_Witness ==
    /\ pc = "sleeping"
    /\ mqttReady = "no"
    /\ batteryReads = 0
    /\ wakeTimerSec = DEEP_SLEEP_INTERVAL_SEC

\* C10 as stated: a boot whose readiness check passed reads each sensor
\* once, publishes exactly one message and waits the settle time before
\* Sleeping.
C10_ReadyAlwaysPublishesOnce ==
    (mqttReady = "yes" /\ pc = "sleeping") =>
        /\ batteryReads = 1 /\ moistureReads = 1
        /\ published = 1
        /\ settledMs = PUBLISH_WAIT_MS

\* C10 amended: a boot whose readiness check passed reads each sensor
\* exactly once and calls the publish once; when the publish succeeds one
\* message is published and the settle wait elapses before Sleeping; when
\* it fails (flag false again, or the transport refuses the message)
\* nothing is published and the settle wait is skipped.  No boot publishes
\* more than one message.
C10_ReadyReadsOncePublishesAtMostOnce ==
    /\ published <= 1 /\ batteryReads <= 1 /\ moistureReads <= 1
    /\ batteryReads = moistureReads
    /\ batteryReads = 1 => mqttReady = "yes"
    /\ (mqttReady = "yes" /\ pc # "read_sensors") =>
          (batteryReads = 1 /\ moistureReads = 1)
    /\ published = 1 => (batteryReads = 1 /\ failure = "none")
    /\ (published = 1 /\ pc \in {"enter_sleep", "sleeping"}) =>
          settledMs = PUBLISH_WAIT_MS
    /\ failure = "publish" => (published = 0 /\ settledMs = 0)
    /\ (mqttReady = "yes" /\ pc = "sleeping") =>
          (published = 1 \/ failure = "publish")

\* one message was published and the settle wait taken before the sleep
C10_Witness ==
    /\ pc = "sleeping"
    /\ published = 1
    /\ settledMs = PUBLISH_WAIT_MS
    /\ batteryReads = 1 /\ moistureReads = 1

\* C11: when mqtt_event_handler has finished handling a connected event the
\* transport connected-flag is true, and when it has finished handling a
\* disconnected event the flag is false, so that the flag the poll reads is
\* the outcome of the most recent connect or disconnect event.
C11_FlagFollowsLastEvent ==
    [][/\ (mqttHandlerPc = "fallthrough" /\ mqttHandlerPc' = "idle")
             => mqtt_connected'
       /\ (mqttHandlerPc = "idle" /\ mqttHandlerPc' = "idle"
             /\ mqtt_connected' # mqtt_connected)
             => ~mqtt_connected'
      ]_vars

\* C12: wifi_manager_wait_connected takes at most timeout_sec polls and
\* returns false only when the connected flag was never read true during
\* the wait: a wait that leaves the loop before the timeout, which it does
\* only on reading the flag true, returns true.
C12_FalseOnlyWhenNeverConnected ==
    [][/\ elapsed' <= WIFI_TIMEOUT_SEC
       /\ (pc = "wifi_result" /\ pc' = "wifi_clear")
             => elapsed = WIFI_TIMEOUT_SEC
      ]_vars

\* C13: the detector is polled while app_main runs, so a reset button held
\* since boot has triggered the reset once the boot has lasted longer than
\* LONG_PRESS_DURATION_MS (here: that many ms of the network wait alone).
C13_LongPressShortCircuits ==
    (gpio_level /\ pc = "wifi_wait"
        /\ elapsed * 1000 > LONG_PRESS_DURATION_MS) => reset_triggered

\* a step of factory_reset_check: neither the clock, the button nor
\* esp_restart
PollStep ==
    /\ now_ms' = now_ms
    /\ gpio_level' = gpio_level
    /\ resetPc' # "restarted"

\* C14: over any sequence of polls within one boot the destructive action is
\* invoked at most once; it is invoked by a poll that finds the debounced
\* level pressed, a press already registered and now - press start >= 5000,
\* that poll sets the latch, and a poll made with the latch set changes
\* nothing.
C14_TriggerAtMostOnce ==
    /\ [](resetActions <= 1 /\ (reset_triggered <=> resetActions = 1))
    /\ [][PollStep =>
            /\ ~reset_triggered
            /\ (resetActions' # resetActions) <=> reset_triggered'
            /\ reset_triggered' <=>
                  /\ last_stable_state'
                  /\ button_was_pressed
                  /\ now_ms - button_press_start_ms >= LONG_PRESS_DURATION_MS
         ]_vars

\* the action fired once, after a hold of exactly the threshold
C14_Witness ==
    /\ resetPc = "restarted"
    /\ resetActions = 1
    /\ reset_triggered
    /\ now_ms - button_press_start_ms = LONG_PRESS_DURATION_MS

\* C15: the debounced level changes to pressed only when the raw level has
\* been pressed for at least DEBOUNCE_TIME_MS, so a raw press shorter than
\* that never registers.
C15_ShortPressNeverRegisters ==
    [][(~last_stable_state /\ last_stable_state')
          => now_ms - rawSinceMs >= DEBOUNCE_TIME_MS]_vars

\* C16: a poll that finds the debounced level released after a registered
\* press returns the detector to Idle and does nothing else; a poll that
\* registers a press stamps it with the current time, and a registered press
\* is always measured from the transition that the filter accepted for it,
\* so that earlier holds add nothing to it.
C16_EarlyReleaseResetsHold ==
    /\ [](button_was_pressed =>
             (last_stable_state
                /\ button_press_start_ms = last_change_time))
    /\ [][PollStep =>
            /\ (button_was_pressed /\ ~last_stable_state') =>
                  /\ ~button_was_pressed'
                  /\ nvs' = nvs
                  /\ ~reset_triggered'
                  /\ resetActions' = resetActions
                  /\ resetPc' = resetPc
                  /\ button_press_start_ms' = button_press_start_ms
            /\ (~button_was_pressed /\ button_was_pressed') =>
                  /\ button_press_start_ms' = now_ms
                  /\ nvs' = nvs
                  /\ ~reset_triggered'
                  /\ resetActions' = resetActions
         ]_vars

\* a second press registered after an early release, held for less than the
\* threshold although the first press began more than the threshold ago
C16_Witness ==
    /\ button_was_pressed
    /\ ~reset_triggered
    /\ button_press_start_ms >= 150
    /\ now_ms >= 50 + LONG_PRESS_DURATION_MS
    /\ nvs = NvsProvisioned
    /\ resetPc = "idle"

\* C17: the call of adc_manager_init that first succeeds acquires the
\* conversion-unit handle, and every call entered after it returns ESP_OK
\* without acquiring a handle and without changing the stored handle or the
\* calibration registry.
C17_InitIdempotent ==
    /\ [](adc_initialized => (adc_handle # 0 /\ unitsAcquired >= 1))
    /\ [][/\ (~adc_initialized /\ adc_initialized') =>
                /\ unitsAcquired' = unitsAcquired + 1
                /\ adc_handle' # 0
          /\ \A t \in Threads :
                (adc_initialized /\ adcPc[t] = "idle"
                    /\ (adcPc'[t] # adcPc[t] \/ adcRet'[t] # adcRet[t])) =>
                   /\ adcPc'[t] = "idle"
                   /\ adcRet'[t] = "ESP_OK"
                   /\ adc_handle' = adc_handle
                   /\ unitsAcquired' = unitsAcquired
                   /\ adc_initialized'
                   /\ cali_handles' = cali_handles
         ]_vars

\* both callers have had ESP_OK although the unit was acquired once: one of
\* the calls returned early
C17_Witness ==
    /\ adc_initialized
    /\ unitsAcquired = 1
    /\ adcRet["t1"] = "ESP_OK"
    /\ adcRet["t2"] = "ESP_OK"
    /\ \A t \in Threads : adcPc[t] = "idle"

\* C18: when two threads call adc_manager_init concurrently the unit is
\* acquired at most once, no caller is refused because the other one holds
\* the unit, and once both calls have returned (the driver reporting no
\* fault of its own) both have succeeded and share one valid handle.
C18_ConcurrentInitShared ==
    /\ unitsAcquired <= 1
    /\ \A t \in Threads : adcRet[t] # "ESP_ERR_NOT_FOUND"
    /\ (\A t \in Threads : adcRet[t] \notin {"none", "ESP_FAIL"}) =>
          /\ \A t \in Threads : adcRet[t] = "ESP_OK"
          /\ adc_handle # 0

\* C19: adc_manager_get_handle returns NULL as long as adc_manager_init has
\* never succeeded and the one shared handle ever after; a sensor
\* pipeline's init called while it returns NULL fails with
\* ESP_ERR_INVALID_STATE, leaves the pipeline uninitialized and creates no
\* curve.
C19_HandleUnavailableBeforeInit ==
    /\ [](/\ unitsAcquired = 0 => adc_manager_get_handle = 0
          /\ unitsAcquired >= 1 => adc_manager_get_handle = 1
          /\ (battery_initialized \/ soil_initialized) => unitsAcquired >= 1
          /\ adc_initialized <=> unitsAcquired >= 1)
    /\ [][/\ adc_handle # 0 => adc_handle' = adc_handle
          /\ (unitsAcquired = 0 /\ sensorRet' # sensorRet) =>
                /\ sensorRet' = "ESP_ERR_INVALID_STATE"
                /\ ~battery_initialized' /\ ~soil_initialized'
                /\ cali_handles' = cali_handles
                /\ curvesCreated' = curvesCreated
          /\ (unitsAcquired >= 1 /\ sensorRet' # sensorRet) =>
                sensorRet' # "ESP_ERR_INVALID_STATE"
         ]_vars

\* a pipeline was refused before the manager was initialized
C19_Witness ==
    /\ unitsAcquired = 0
    /\ sensorRet = "ESP_ERR_INVALID_STATE"
    /\ ~battery_initialized /\ ~soil_initialized

\* C20: adc_manager_create_cali for a pair that is in the registry returns
\* ESP_OK with the handle stored for that pair, which is the handle returned
\* by the call that created the curve; it builds no curve and changes no
\* slot, also when every slot is in use.  No pair has two slots.
C20_ExistingPairReused ==
    /\ [](\A i, j \in 1..MAX_CALI_HANDLES :
            (i # j /\ cali_handles[i].in_use /\ cali_handles[j].in_use) =>
               /\ cali_handles[i].handle # cali_handles[j].handle
               /\ <<cali_handles[i].channel, cali_handles[i].atten>>
                     # <<cali_handles[j].channel, cali_handles[j].atten>>)
    /\ [][LET ex == adc_manager_get_cali_handle(
                        cali_handles, lastCali'.channel, lastCali'.atten)
          IN /\ (lastCali' # lastCali /\ ex # 0) =>
                   /\ lastCali'.err = "ESP_OK"
                   /\ lastCali'.handle = ex
                   /\ cali_handles' = cali_handles
                   /\ curvesCreated' = curvesCreated
             /\ (curvesCreated' # curvesCreated) =>
                   /\ ex = 0
                   /\ curvesCreated' = curvesCreated + 1
                   /\ lastCali'.handle = curvesCreated'
                   /\ adc_manager_get_cali_handle(cali_handles',
                         lastCali'.channel, lastCali'.atten)
                        = lastCali'.handle
         ]_vars

\* with every slot in use, a call returned the curve built first
C20_Witness ==
    /\ \A i \in 1..MAX_CALI_HANDLES : cali_handles[i].in_use
    /\ curvesCreated = MAX_CALI_HANDLES
    /\ lastCali.err = "ESP_OK"
    /\ lastCali.handle = 1

\* C21: in every state of the registry, after any calls of
\* adc_manager_create_cali, no two in-use slots hold the same
\* (channel, attenuation) pair.
C21_OneEntryPerPair ==
    \A i, j \in 1..MAX_CALI_HANDLES :
        (/\ cali_handles[i].in_use /\ cali_handles[j].in_use
         /\ cali_handles[i].channel = cali_handles[j].channel
         /\ cali_handles[i].atten = cali_handles[j].atten) => i = j

\* two curves of one channel are in use and a later call for the first
\* pair was answered from the registry
C21_Witness ==
    /\ \E i, j \in 1..MAX_CALI_HANDLES :
          /\ i # j
          /\ cali_handles[i].in_use /\ cali_handles[j].in_use
          /\ cali_handles[i].channel = cali_handles[j].channel
    /\ curvesCreated = 3
    /\ lastCali.err = "ESP_OK"
    /\ lastCali.handle = 1

RegistryFull(reg) == \A i \in 1..MAX_CALI_HANDLES : reg[i].in_use

\* C22: with MAX_CALI_HANDLES slots in use, adc_manager_create_cali for a
\* pair that has no slot returns ESP_ERR_NO_MEM and no handle, whatever the
\* curve fitting would answer, and leaves every slot and the number of
\* curves as they were.
C22_FullRegistryRejects ==
    [][(/\ RegistryFull(cali_handles)
        /\ lastCali' # lastCali
        /\ adc_manager_get_cali_handle(cali_handles, lastCali'.channel,
                                       lastCali'.atten) = 0)
       => /\ lastCali'.err = "ESP_ERR_NO_MEM"
          /\ lastCali'.handle = 0
          /\ cali_handles' = cali_handles
          /\ curvesCreated' = curvesCreated]_vars

\* a call for a fifth pair was refused by the full registry
C22_Witness ==
    /\ RegistryFull(cali_handles)
    /\ curvesCreated = MAX_CALI_HANDLES
    /\ lastCali.err = "ESP_ERR_NO_MEM"
    /\ adc_manager_get_cali_handle(cali_handles, lastCali.channel,
                                   lastCali.atten) = 0

RECURSIVE TakenCount(_, _)
TakenCount(taken, values) ==
    IF values = {} THEN 0
    ELSE LET v == CHOOSE x \in values : TRUE
         IN taken.ok[v] + TakenCount(taken, values \ {v})

RECURSIVE TakenSum(_, _)
TakenSum(taken, values) ==
    IF values = {} THEN 0
    ELSE LET v == CHOOSE x \in values : TRUE
         IN v * taken.ok[v] + TakenSum(taken, values \ {v})

\* C24: after the SAMPLE_COUNT reads of the sampling loop, of which k
\* succeeded, valid_samples is k whatever the order of the failures; for
\* k >= 1 avg_raw is the sum of the k values that were read divided by k,
\* rounded down, and the curve is asked once; for k = 0 the read takes the
\* branch for "all reads failed" and the curve is not asked.
C24_MeanOfValidSamples ==
    (readPc = "done" /\ sample_i = SAMPLE_COUNT) =>
        LET k == TakenCount(samplesTaken, RawValues) IN
        /\ samplesTaken.failed + k = SAMPLE_COUNT
        /\ valid_samples = k
        /\ value_sum = TakenSum(samplesTaken, RawValues)
        /\ k >= 1 => /\ avg_raw = TakenSum(samplesTaken, RawValues) \div k
                     /\ caliCalls = 1
                     /\ readErr # "all_failed"
        /\ k = 0 => /\ readErr = "all_failed"
                    /\ caliCalls = 0

\* seven reads failed; the mean of 7, 7 and 4095 was converted
C24_Witness ==
    /\ readPc = "done"
    /\ samplesTaken.failed = 7
    /\ samplesTaken.ok[7] = 2 /\ samplesTaken.ok[4095] = 1
    /\ avg_raw = 1369
    /\ readErr = "none"

\* C25: a read in which every sample failed returns something else than a
\* read that succeeded with the value 0, so that the caller can tell the
\* two apart by what the function hands back.
C25_FailureDiffersFromZeroReading ==
    (readPc = "done" /\ readErr = "all_failed") =>
        \A v \in CaliMilliVolts :
            ReadValue(readFn, v) = F32Zero => readResult # ReadValue(readFn, v)

\* C26: the two reads of publish_telemetry_once, battery_monitor_read_voltage
\* and soil_moisture_read_percentage, return 0 when every sample failed.
C26_AllFailedReadsZero ==
    (/\ readPc = "done"
     /\ readErr = "all_failed"
     /\ readFn \in {"battery_monitor_read_voltage",
                    "soil_moisture_read_percentage"})
    => readResult = F32Zero

\* C27: for every voltage v of the curve soil_moisture_read_percentage
\* returns the reference value, 0 from SENSOR_DRY_MV up, 100 up to
\* SENSOR_WET_MV and 100 * (dry - v) / (dry - wet) between them, as the
\* nearest float; it is never above 100, and 52.4 within 0.1 at 1850 mV.
C27_TransformEqualsReference ==
    (readPc = "done" /\ readFn = "soil_moisture_read_percentage"
       /\ readErr = "none") =>
        LET v == cali_mV
            reference ==
                IF v >= SENSOR_DRY_MV THEN F32Zero
                ELSE IF v <= SENSOR_WET_MV THEN F32FromInt(100)
                ELSE F32Div(F32FromInt(100 * (SENSOR_DRY_MV - v)),
                            F32FromInt(SENSOR_DRY_MV - SENSOR_WET_MV))
        IN /\ readResult = reference
           /\ v = SENSOR_DRY_MV => readResult = F32Zero
           /\ v = SENSOR_WET_MV => readResult = F32FromInt(100)
           /\ ~F32Less(F32FromInt(100), readResult)
           /\ v = 1850 =>
                 /\ ~F32Less(readResult, F32Div(F32FromInt(523),
                                                F32FromInt(10)))
                 /\ ~F32Less(F32Div(F32FromInt(525), F32FromInt(10)),
                             readResult)

\* C28: of two reads of soil_moisture_read_percentage the one at the higher
\* voltage does not return the higher percentage; with every voltage up to
\* MaxMilliVolts compared with the MaxSweepStep next ones this orders all
\* of them.
C28_TransformNonIncreasing ==
    [][(/\ readPc = "done" /\ readPc' = "done"
        /\ cali_mV < cali_mV')
       => ~F32Less(readResult, readResult')]_vars

\* a read one millivolt above the wet point, strictly between 0 and 100
C28_Witness ==
    /\ readPc = "done"
    /\ readFn = "soil_moisture_read_percentage"
    /\ cali_mV = SENSOR_WET_MV + 1
    /\ F32Less(readResult, F32FromInt(100))
    /\ F32Less(F32Zero, readResult)

\* C29: a POST /save whose body has no field named ssid, no field named
\* password or no field named device_id is answered with an error, and
\* the store and the provisioning_complete flag stay as they were.  A field
\* starts at the start of the body or after a '&'.
C29_MissingFieldRejected ==
    [][(/\ httpReq.pending /\ ~httpReq'.pending /\ ~Terminated
        /\ \E key \in FormKeys :
              ~\E i \in 1..Len(httpReq.body) :
                  /\ httpReq.body[i] = key
                  /\ (i = 1 \/ httpReq.body[i - 1] = "&"))
       => /\ httpResp' = "500"
          /\ nvs' = nvs
          /\ provisioning_complete' = provisioning_complete]_vars

\* C30: a POST /save that is answered with an error, a storage error
\* included, leaves the store as it was before the request.
C30_FailedSubmissionWritesNothing ==
    [][(/\ httpReq.pending /\ ~httpReq'.pending /\ ~Terminated
        /\ httpResp' = "500")
       => nvs' = nvs]_vars

\* C33 as stated: the persisted identity changes only in a provisioning
\* submission that is answered with success, or in the step in which the
\* factory-reset detector triggers; no step of the orchestrator changes it.
C33_OnlyProvisioningAndReset ==
    [][nvs' # nvs =>
          \/ (httpReq.pending /\ ~httpReq'.pending /\ httpResp' = "200")
          \/ (reset_triggered' /\ ~reset_triggered)]_vars

\* C33 amended: the persisted identity changes only (a) in the handler of a
\* provisioning submission that passed parsing, where a storage error can
\* leave it partly written, (b) in the factory-reset trigger, (c) in the
\* connect-timeout step of Connecting, which clears it before the restart,
\* and (d) in Init when nvs_flash_init reports a full or outdated
\* partition and the partition is erased.  The provisioning check, the
\* publishing steps, the sleep entry and the next boot leave it as it is.
C33_StoreWriters ==
    [][nvs' # nvs =>
          \/ /\ httpReq.pending /\ ~httpReq'.pending
             /\ parse_form_fields(httpReq.body).ok
             /\ pc' = pc
          \/ /\ reset_triggered' /\ ~reset_triggered
             /\ nvs' = NvsEmpty
          \/ /\ pc = "wifi_clear" /\ pc' = "restarted"
             /\ nvs' = NvsEmpty
          \/ /\ pc = "init"
             /\ nvs' = NvsEmpty]_vars

\* the connect timeout of a provisioned device has cleared the store
C33_Witness ==
    /\ pc = "restarted"
    /\ endCause = "wifi_timeout"
    /\ provRead = "yes"
    /\ clearResult = "ok"
    /\ nvs = NvsEmpty

C35_TopicFromDeviceId ==
    /\ [][pc = "mqtt_setup" /\ pc' # pc =>
            \/ /\ nvs.device_id # Absent
               /\ device_id_buffer' = nvs.device_id
               /\ mqtt_topic_buffer' = MQTT_TOPIC_PREFIX \o nvs.device_id
            \/ /\ device_id_buffer' = DEFAULT_DEVICE_ID
               /\ mqtt_topic_buffer' = MQTT_TOPIC_PREFIX \o DEFAULT_DEVICE_ID]_vars
    /\ [](nvs.device_id = Absent /\ pc \in PublishingPcs \ {"mqtt_setup"}
            => device_id_buffer = DEFAULT_DEVICE_ID)
    /\ [](published > 0 =>
            /\ lastPublish.topic = MQTT_TOPIC_PREFIX \o lastPublish.device
            /\ lastPublish.topic = mqtt_topic_buffer
            /\ lastPublish.device = device_id_buffer
            /\ lastPublish.device \in {nvs.device_id, DEFAULT_DEVICE_ID})

\* a message went out under the stored device id
C35_Witness ==
    /\ published = 1
    /\ nvs.device_id = "dev1"
    /\ lastPublish.topic = "prefix/dev1"
    /\ lastPublish.device = "dev1"

\* C36: the shared handle of the ADC manager and its calibration registry
\* are written only while the orchestrator is in Init; every later step of
\* the boot, the sensor reads included, leaves them as they were at the end
\* of Init (the end of the process discards them).
C36_AdcWrittenOnlyInInit ==
    [][(\/ adc_handle' # adc_handle
        \/ adc_initialized' # adc_initialized
        \/ cali_handles' # cali_handles
        \/ curvesCreated' # curvesCreated)
       => (pc = "init" \/ Terminated)]_vars

\* both sensors were read and the message published with the handle and
\* the two curves of Init still in place
C36_Witness ==
    /\ pc = "sleeping"
    /\ published = 1
    /\ batteryReads = 1 /\ moistureReads = 1
    /\ adc_handle # 0
    /\ curvesCreated = 2
    /\ cali_handles # NoCali

\* C37: esp_mqtt_client_publish is called only in a state in which the
\* transport client exists and the connected flag is true at the moment of
\* the call, whatever events the transport task delivers in between.
C37_PublishOnlyWhenConnected ==
    [][(pc = "publish_send" /\ pc' # "publish_send")
       => (client /\ mqtt_connected)]_vars

\* C38: a sensor pipeline that failed to initialize in Init does not stop
\* the boot: a hard Init failure only arises before the sensors are set up,
\* every read of an uninitialized pipeline returns 0 without a sample taken
\* or a conversion made, and the value published for that sensor is 0.
C38_UninitializedSensorReadsZero ==
    /\ (pc # "init" /\ failure = "init") =>
          (~battery_initialized /\ ~soil_initialized /\ batteryReads = 0)
    /\ (batteryReads = 1 /\ ~battery_initialized) =>
          readings.voltage = F32Zero
    /\ (moistureReads = 1 /\ ~soil_initialized) =>
          readings.soil_moisture = F32Zero
    /\ (published = 1 /\ ~battery_initialized) => lastPublish.battery = 0
    /\ (published = 1 /\ ~soil_initialized) => lastPublish.soil_moisture = 0
    /\ readErr = "not_initialized" =>
          /\ readResult = F32Zero
          /\ sample_i = 0 /\ samplesTaken = NoSamples /\ caliCalls = 0

\* a boot in which both pipelines failed to initialize went through to the
\* publish and sent zeros
C38_Witness ==
    /\ pc = "sleeping"
    /\ failure = "none"
    /\ adc_initialized /\ ~battery_initialized /\ ~soil_initialized
    /\ published = 1
    /\ lastPublish.battery = 0 /\ lastPublish.soil_moisture = 0

\* C39: when the device is provisioned and wifi_manager_init_sta fails
\* before the connect wait starts (a driver call fails or the stored ssid
\* or password cannot be loaded), the boot goes to Sleeping with the default
\* interval, the store is left as it is and there is no restart; a step of
\* Connecting changes the store only on the connect-timeout path.
C39_InitStaFailureKeepsIdentity ==
    /\ [](failure = "wifi_init" =>
            /\ provRead = "yes"
            /\ pc \in {"enter_sleep", "sleeping"}
            /\ sleepArg = DEEP_SLEEP_INTERVAL_SEC
            /\ pc = "sleeping" =>
                  (wakeTimerSec = DEEP_SLEEP_INTERVAL_SEC /\ endCause = "sleep")
            /\ ~wifiStarted
            /\ clearResult = "none")
    /\ [][failure' = "wifi_init" => nvs' = nvs]_vars
    /\ [][(pc \in ConnectingPcs /\ nvs' # nvs) =>
            (pc = "wifi_clear" /\ failure = "wifi_timeout")]_vars

\* a provisioned device whose station could not be set up sleeps with its
\* identity still stored
C39_Witness ==
    /\ pc = "sleeping"
    /\ failure = "wifi_init"
    /\ endCause = "sleep"
    /\ wakeTimerSec = DEEP_SLEEP_INTERVAL_SEC
    /\ nvs.provisioned = 1
    /\ nvs.ssid = "net" /\ nvs.password = "pw"

\* C40: a call of adc_manager_create_cali in which
\* adc_cali_create_scheme_curve_fitting fails returns that error, builds no
\* curve and writes no slot: the pair still has no entry and the first free
\* slot is the same as before, so that the next call for the pair builds
\* the curve again.  The error is returned only for a pair without an entry
\* while a slot is free.
C40_FailedCurveLeavesRegistry ==
    [][(lastCali' # lastCali /\ lastCali'.err = "ESP_FAIL") =>
          /\ cali_handles' = cali_handles
          /\ curvesCreated' = curvesCreated
          /\ adc_manager_get_cali_handle(cali_handles', lastCali'.channel,
                                         lastCali'.atten) = 0
          /\ free_slot(cali_handles') = free_slot(cali_handles)
          /\ free_slot(cali_handles) # 0]_vars

\* the construction failed for a pair while two other curves are in use
C40_Witness ==
    /\ lastCali.err = "ESP_FAIL"
    /\ curvesCreated = 2
    /\ free_slot(cali_handles) = 3
    /\ adc_manager_get_cali_handle(cali_handles, lastCali.channel,
                                   lastCali.atten) = 0

\* C31: save_post_handler sends the success page, sets
\* provisioning_complete and goes on to the restart only in a step that
\* leaves the store with the ssid, the password, the provisioned flag and
\* the device id of the form; the device id is written only after the
\* credentials are complete; a request answered with an error leaves the
\* flag false and schedules no restart, and handle_provisioning leaves its
\* poll only with the flag true.
C31_AckOnlyAfterBothWrites ==
    /\ [](provisioning_complete =>
            /\ httpResp = "200"
            /\ nvs.provisioned = 1
            /\ nvs.ssid # Absent /\ nvs.password # Absent
            /\ nvs.device_id # Absent)
    /\ [](pc = "prov_done" => provisioning_complete)
    /\ [][(httpReq.pending /\ ~httpReq'.pending /\ ~Terminated) =>
            LET form == parse_form_fields(httpReq.body) IN
            /\ httpResp' \in {"200", "500"}
            /\ httpResp' = "200" =>
                  /\ form.ok
                  /\ nvs' = [provisioned |-> 1, ssid |-> form.ssid,
                              password |-> form.password,
                              device_id |-> form.device_id]
                  /\ provisioning_complete'
                  /\ httpPc' = "restart_pending"
            /\ httpResp' = "500" =>
                  /\ ~provisioning_complete'
                  /\ httpPc' = "idle"
            /\ nvs'.device_id # nvs.device_id =>
                  /\ nvs'.provisioned = 1
                  /\ nvs'.ssid = form.ssid
                  /\ nvs'.password = form.password]_vars

\* after failed submissions one succeeded and the poll has seen the flag
C31_Witness ==
    /\ pc = "prov_done"
    /\ provisioning_complete
    /\ httpResp = "200"
    /\ httpPc = "restart_pending"
    /\ nvs = [provisioned |-> 1, ssid |-> "net", password |-> "pw",
               device_id |-> "dev1"]

\* C32: whenever the store holds provisioned = 1 it holds an ssid and a
\* password, and neither is the empty string.
C32_ProvisionedHasCredentials ==
    nvs.provisioned = 1 =>
        /\ nvs.ssid # Absent /\ nvs.ssid # ""
        /\ nvs.password # Absent /\ nvs.password # ""

====
